---- MODULE Spec2Model ----
(***************************************************************************)
(* A model of the JSON plan tool ("Jason updates/json_plan_tool.py"):      *)
(*   - the atomic document store, write_atomic (temp file, fsync, backup,  *)
(*     rename), run step by step with failures and process kills, by one   *)
(*     writer, by one writer always backing up, and by two processes       *)
(*     racing on the same path;                                            *)
(*   - the JSON Pointer helpers (_split_pointer, pointer_get, pointer_add, *)
(*     pointer_replace, pointer_remove) as operators over JSON values;     *)
(*   - the JSON Patch executor, apply_patch, run one operation per step,   *)
(*     over JSON values and over Python objects with identities, and the   *)
(*     consolidated patch of make_consolidated_patch.py;                   *)
(*   - clone_layer and _unescape_token, one call each;                     *)
(*   - the command-line tools (json_plan_tool.py, apply_patches_in_order.py *)
(*     and the template commands of json_plan_tool_extended.py), from the  *)
(*     read of the input to the preview or the commit.                     *)
(***************************************************************************)
EXTENDS Integers, Sequences, FiniteSets, TLC

VARIABLES
    \* ---- the file system around one target path (write_atomic) ----
    fpath,      \* the file at `path`: [ex, data]
    ftmp,       \* the temporary file of the commit in progress: [ex, data]
    tmpSynced,  \* the temporary file's bytes were forced to durable storage
    fbak,       \* the backup files, by name <<timestamp, digest prefix>>
    leaked,     \* temporary files left behind by failed or killed commits
    clock,      \* the UTC clock, in seconds
    \* ---- the process running write_atomic ----
    wpc,        \* the statement it executes next
    wdata,      \* data: the serialized new revision
    wmb,        \* make_backup
    wts,        \* ts, read from the clock at line 31
    wpre,       \* history: the file at `path` when write_atomic was called
    werr,       \* history: the statement that raised, or "none"
    wbak,       \* history: the backup name this commit wrote, or NoBak
    wrenamed,   \* history: this commit's os.replace was performed
    nCommits,   \* history: calls of write_atomic so far
    wreplaced,  \* history: the revisions os.replace has replaced at `path`
    \* ---- one call of a JSON Pointer helper ----
    pdoc,       \* the document passed
    pptr,       \* the pointer string passed
    pval,       \* the value passed (pointer_add, pointer_replace)
    pdest,      \* dest_pointer (clone_layer)
    pname,      \* name (clone_layer): <<>> for None, else <<the string>>
    pcall,      \* the helper called, or "none"
    pres,       \* its outcome: [err, doc, val]
    \* ---- one run of apply_patch ----
    xdoc,       \* doc: the working document
    xpatch,     \* patch: the list of operations
    xi,         \* i: the index of the operation the loop is at (from 0)
    xpc,        \* "run", "done" (returned) or "failed" (raised)
    xerr,       \* the exception raised, or "none"
    xdoc0,      \* history: the document passed in
    xtrace,     \* history: the operations executed, in order
    xerrAt,     \* history: the index of the operation that raised, or -1
    \* ---- the Python objects of a run of apply_patch ----
    hheap,      \* the lists and dicts created so far, by identity 1, 2, ...
    hroot,      \* doc: a scalar or a reference to a list or dict
    \* ---- one call of _unescape_token ----
    utoken,     \* token: the raw reference token
    ucall,      \* "none" before the call, "unescape" after it
    uresult,    \* the string returned
    \* ---- one run of a command-line tool ----
    mcall,      \* the command, its --dry-run flag and its arguments
    mpc,        \* where the command stands
    mdoc0,      \* history: the document read at the start
    mfile0,     \* history: the target file when the command started
    mnew,       \* new_doc: the edited document, in memory
    merr,       \* the exception that ended the command, or "none"
    \* ---- two processes running write_atomic on the same path ----
    tw,         \* per process: its statement, data, ts, temporary file, history
    nren,       \* history: os.replace calls performed on the path so far
    tfile0      \* history: the file at the path before either commit

storeVars == <<fpath, ftmp, tmpSynced, fbak, leaked, clock,
               wpc, wdata, wmb, wts, wpre, werr, wbak, wrenamed, nCommits, wreplaced>>

ptrVars == <<pdoc, pptr, pval, pdest, pname, pcall, pres>>

execVars == <<xdoc, xpatch, xi, xpc, xerr, xdoc0, xtrace, xerrAt>>

heapVars == <<hheap, hroot>>

unescVars == <<utoken, ucall, uresult>>

cliVars == <<mcall, mpc, mdoc0, mfile0, mnew, merr>>

twoVars == <<tw, nren, tfile0>>

vars == <<storeVars, ptrVars, execVars, heapVars, unescVars, cliVars, twoVars>>

----------------------------------------------------------------------------
(* Bounds *)

MaxCommits == 2
MaxClock == 1
MaxTokens == 2
MaxPatchLen == 3
MaxRawLen == 4

----------------------------------------------------------------------------
(* Files and revisions *)

Absent == [ex |-> FALSE, data |-> <<>>]
File(d) == [ex |-> TRUE, data |-> d]

\* The serialized revisions a commit may be given (json.dumps never yields
\* the empty string). The first is a proper prefix of the second.
RevList == << <<1>>, <<1, 2>>, <<3, 4>> >>
Revs == {RevList[i] : i \in 1..Len(RevList)}

Prefixes(d) == {SubSeq(d, 1, n) : n \in 0..Len(d)}
ProperPrefixes(d) == {SubSeq(d, 1, n) : n \in 0..(Len(d) - 1)}

\* new_hash[:8]: the digest prefix of the data. Distinct data have distinct
\* digests (SHA-256 collisions are left out), so the data stand for it.
Hash8(d) == d

BakNames == (0..MaxClock) \X Revs
NoBak == <<-1, <<>>>>

\* bak_path = f"{path}.bak.{ts}.{new_hash[:8]}"
BakPath(ts, data) == <<ts, Hash8(data)>>

----------------------------------------------------------------------------
(* The parts of the state a specification does not use stay as they start *)

NoResult == [err |-> "none", doc |-> [t |-> "null"], val |-> [t |-> "null"]]

InitStoreIdle ==
    /\ fpath = [ex |-> FALSE, data |-> <<>>]
    /\ ftmp = [ex |-> FALSE, data |-> <<>>]
    /\ tmpSynced = FALSE
    /\ fbak = <<>>
    /\ leaked = 0
    /\ clock = 0
    /\ wpc = "idle"
    /\ wdata = <<>>
    /\ wmb = FALSE
    /\ wts = 0
    /\ wpre = [ex |-> FALSE, data |-> <<>>]
    /\ werr = "none"
    /\ wbak = <<-1, <<>>>>
    /\ wrenamed = FALSE
    /\ nCommits = 0
    /\ wreplaced = {}

InitPointerIdle ==
    /\ pdoc = [t |-> "null"]
    /\ pptr = <<>>
    /\ pval = [t |-> "null"]
    /\ pdest = <<>>
    /\ pname = <<>>
    /\ pcall = "idle"
    /\ pres = NoResult

InitExecIdle ==
    /\ xdoc = [t |-> "null"]
    /\ xpatch = <<>>
    /\ xi = 0
    /\ xpc = "idle"
    /\ xerr = "none"
    /\ xdoc0 = [t |-> "null"]
    /\ xtrace = <<>>
    /\ xerrAt = -1

InitHeapIdle ==
    /\ hheap = <<>>
    /\ hroot = [t |-> "null"]

InitUnescIdle ==
    /\ utoken = <<>>
    /\ ucall = "idle"
    /\ uresult = <<>>

InitCliIdle ==
    /\ mcall = [cmd |-> "none"]
    /\ mpc = "idle"
    /\ mdoc0 = [t |-> "null"]
    /\ mfile0 = [ex |-> FALSE, data |-> <<>>]
    /\ mnew = [t |-> "null"]
    /\ merr = "none"

InitTwoIdle ==
    /\ tw = <<>>
    /\ nren = 0
    /\ tfile0 = [ex |-> FALSE, data |-> <<>>]

----------------------------------------------------------------------------
(* write_atomic, statement by statement *)

\* The statement that follows `pc` when it returns normally; `backup` is the
\* value of `make_backup and os.path.exists(path)` (line 30).
StepAfterEarlyRename(pc, backup) ==
    CASE pc = "mkstemp" -> "write"
      [] pc = "write"   -> "replace"
      [] pc = "replace" -> "flush"
      [] pc = "flush"   -> "fsync"
      [] pc = "fsync"   -> "close"
      [] pc = "close"   -> "exists"
      [] pc = "exists"  -> IF backup THEN "utcnow" ELSE "return"
      [] pc = "utcnow"  -> "copy"
      [] pc = "copy"    -> "copying"
      [] pc = "copying" -> "return"
      [] OTHER          -> "done"

StepAfterRenameFirst(pc, backup) ==
    CASE pc = "mkstemp" -> "write"
      [] pc = "write"   -> "flush"
      [] pc = "flush"   -> "fsync"
      [] pc = "fsync"   -> "close"
      [] pc = "close"   -> "replace"
      [] pc = "replace" -> "exists"
      [] pc = "exists"  -> IF backup THEN "utcnow" ELSE "return"
      [] pc = "utcnow"  -> "copy"
      [] pc = "copy"    -> "copying"
      [] pc = "copying" -> "return"
      [] OTHER          -> "done"

StepAfter(pc, backup) ==
    CASE pc = "mkstemp" -> "write"      \* line 25
      [] pc = "write"   -> "flush"      \* line 27
      [] pc = "flush"   -> "fsync"      \* line 28
      [] pc = "fsync"   -> "close"      \* line 29
      [] pc = "close"   -> "exists"     \* line 26, leaving the with block
      [] pc = "exists"  -> IF backup THEN "utcnow" ELSE "replace"  \* line 30
      [] pc = "utcnow"  -> "copy"       \* lines 31-32
      [] pc = "copy"    -> "copying"    \* line 33, the copy's open of the target
      [] pc = "copying" -> "replace"    \* line 33, the copy's data and metadata
      [] pc = "replace" -> "return"     \* line 34
      [] OTHER          -> "done"       \* line 35

\* What an exception raised by statement `pc` leads to: write_atomic has no
\* handler, so it leaves the function.
OnRaiseSwallowed(pc, backup) == StepAfter(pc, backup)

OnRaise(pc, backup) == "failed"

\* What shutil.copy2(path, bak_path) copies.
BackupSourceTmp(pathFile, tmpFile) == tmpFile.data

BackupSource(pathFile, tmpFile) == pathFile.data

Running == wpc \notin {"idle", "done", "failed", "crashed"}

\* Statements of lines 25-34 that can raise IOError/OSError.
CanRaise == {"mkstemp", "write", "flush", "fsync", "close", "copy", "copying",
             "replace"}

NeedBackup == wmb /\ fpath.ex

\* write_atomic touches nothing else.
StoreFrame == UNCHANGED <<ptrVars, execVars, heapVars, unescVars, cliVars, twoVars>>

Goto(next) ==
    /\ wpc' = next
    /\ leaked' = IF next \in {"failed"} /\ ftmp'.ex THEN leaked + 1 ELSE leaked

\* write_atomic(path, obj, make_backup) is called (lines 19-24).
Begin ==
    /\ ~Running
    /\ StoreFrame
    /\ nCommits < MaxCommits
    /\ \E d \in Revs, mb \in BOOLEAN :
          /\ wdata' = d
          /\ wmb' = mb
    /\ wpc' = "mkstemp"
    /\ wpre' = fpath
    /\ werr' = "none"
    /\ wbak' = NoBak
    /\ wrenamed' = FALSE
    /\ wts' = 0
    /\ nCommits' = nCommits + 1
    /\ ftmp' = Absent
    /\ tmpSynced' = FALSE
    /\ UNCHANGED <<fpath, fbak, leaked, clock, wreplaced>>

\* line 25: tempfile.mkstemp creates an empty file in the directory of path.
Mkstemp ==
    /\ wpc = "mkstemp"
    /\ StoreFrame
    /\ ftmp' = File(<<>>)
    /\ tmpSynced' = FALSE
    /\ Goto(StepAfter(wpc, NeedBackup))
    /\ UNCHANGED <<fpath, fbak, clock, wdata, wmb, wts, wpre, werr, wbak, wrenamed, nCommits, wreplaced>>

\* line 27: tmp.write(data) on a buffered writer: any prefix of data may
\* have reached the file when it returns.
Write ==
    /\ wpc = "write"
    /\ StoreFrame
    /\ \E p \in Prefixes(wdata) : ftmp' = File(p)
    /\ Goto(StepAfter(wpc, NeedBackup))
    /\ UNCHANGED <<fpath, tmpSynced, fbak, clock, wdata, wmb, wts, wpre, werr, wbak,
                   wrenamed, nCommits, wreplaced>>

\* line 28: tmp.flush() hands the rest of the buffer to the file.
Flush ==
    /\ wpc = "flush"
    /\ StoreFrame
    /\ ftmp' = File(wdata)
    /\ Goto(StepAfter(wpc, NeedBackup))
    /\ UNCHANGED <<fpath, tmpSynced, fbak, clock, wdata, wmb, wts, wpre, werr, wbak,
                   wrenamed, nCommits, wreplaced>>

\* line 29: os.fsync(tmp.fileno()).
Fsync ==
    /\ wpc = "fsync"
    /\ StoreFrame
    /\ tmpSynced' = ftmp.ex
    /\ Goto(StepAfter(wpc, NeedBackup))
    /\ UNCHANGED <<fpath, ftmp, fbak, clock, wdata, wmb, wts, wpre, werr, wbak,
                   wrenamed, nCommits, wreplaced>>

\* line 26: the with block closes the file.
Close ==
    /\ wpc = "close"
    /\ StoreFrame
    /\ Goto(StepAfter(wpc, NeedBackup))
    /\ UNCHANGED <<fpath, ftmp, tmpSynced, fbak, clock, wdata, wmb, wts, wpre, werr,
                   wbak, wrenamed, nCommits, wreplaced>>

\* line 30: if make_backup and os.path.exists(path).
Exists ==
    /\ wpc = "exists"
    /\ StoreFrame
    /\ Goto(StepAfter(wpc, NeedBackup))
    /\ UNCHANGED <<fpath, ftmp, tmpSynced, fbak, clock, wdata, wmb, wts, wpre, werr,
                   wbak, wrenamed, nCommits, wreplaced>>

\* lines 31-32: ts = utcnow().strftime(...); bak_path = ...
Utcnow ==
    /\ wpc = "utcnow"
    /\ StoreFrame
    /\ wts' = clock
    /\ Goto(StepAfter(wpc, NeedBackup))
    /\ UNCHANGED <<fpath, ftmp, tmpSynced, fbak, clock, wdata, wmb, wpre, werr, wbak,
                   wrenamed, nCommits, wreplaced>>

\* line 33: shutil.copy2 opens bak_path for writing (creating or truncating
\* it) and starts copying: a proper prefix of the source is in it.
CopyOpen ==
    /\ wpc = "copy"
    /\ StoreFrame
    /\ \E p \in ProperPrefixes(BackupSource(fpath, ftmp)) :
          fbak' = [fbak EXCEPT ![BakPath(wts, wdata)] = File(p)]
    /\ wbak' = BakPath(wts, wdata)
    /\ Goto(StepAfter(wpc, NeedBackup))
    /\ UNCHANGED <<fpath, ftmp, tmpSynced, clock, wdata, wmb, wts, wpre, werr, wrenamed, nCommits, wreplaced>>

\* line 33: shutil.copy2 finishes: all bytes and the metadata are copied.
CopyFinish ==
    /\ wpc = "copying"
    /\ StoreFrame
    /\ fbak' = [fbak EXCEPT ![BakPath(wts, wdata)] = File(BackupSource(fpath, ftmp))]
    /\ Goto(StepAfter(wpc, NeedBackup))
    /\ UNCHANGED <<fpath, ftmp, tmpSynced, clock, wdata, wmb, wts, wpre, werr, wbak,
                   wrenamed, nCommits, wreplaced>>

\* line 34: os.replace(tmp_path, path), atomic.
Replace ==
    /\ wpc = "replace"
    /\ StoreFrame
    /\ fpath' = ftmp
    /\ ftmp' = Absent
    /\ wrenamed' = TRUE
    /\ Goto(StepAfter(wpc, NeedBackup))
    /\ wreplaced' = IF fpath.ex THEN wreplaced \cup {fpath.data} ELSE wreplaced
    /\ UNCHANGED <<tmpSynced, fbak, clock, wdata, wmb, wts, wpre, werr, wbak, nCommits>>

\* line 35: return path, new_hash.
Return ==
    /\ wpc = "return"
    /\ StoreFrame
    /\ Goto(StepAfter(wpc, NeedBackup))
    /\ UNCHANGED <<fpath, ftmp, tmpSynced, fbak, clock, wdata, wmb, wts, wpre, werr,
                   wbak, wrenamed, nCommits, wreplaced>>

\* A statement of lines 25-34 raises (disk full, permission denied): it has
\* no effect on the files beyond what earlier statements did, except that a
\* failing write may leave a prefix in the temporary file and a failing copy
\* a prefix in the backup file.
Raise ==
    /\ wpc \in CanRaise
    /\ StoreFrame
    /\ werr' = wpc
    /\ IF wpc \in {"write", "flush"}
         THEN \E p \in Prefixes(wdata) :
                 /\ Len(p) >= Len(ftmp.data)
                 /\ ftmp' = File(p)
         ELSE ftmp' = ftmp
    /\ Goto(OnRaise(wpc, NeedBackup))
    /\ UNCHANGED <<fpath, tmpSynced, fbak, clock, wdata, wmb, wts, wpre, wbak, wrenamed, nCommits, wreplaced>>

\* The process is killed between two statements. The files stay as they are.
Crash ==
    /\ Running
    /\ StoreFrame
    /\ wpc' = "crashed"
    /\ leaked' = IF ftmp.ex THEN leaked + 1 ELSE leaked
    /\ UNCHANGED <<fpath, ftmp, tmpSynced, fbak, clock, wdata, wmb, wts, wpre, werr,
                   wbak, wrenamed, nCommits, wreplaced>>

\* A second passes.
Tick ==
    /\ clock < MaxClock
    /\ StoreFrame
    /\ clock' = clock + 1
    /\ UNCHANGED <<fpath, ftmp, tmpSynced, fbak, leaked, wpc, wdata, wmb, wts, wpre,
                   werr, wbak, wrenamed, nCommits, wreplaced>>

InitStore ==
    /\ fpath \in {Absent} \cup {File(d) : d \in Revs}
    /\ ftmp = Absent
    /\ tmpSynced = FALSE
    /\ fbak = [n \in BakNames |-> Absent]
    /\ leaked = 0
    /\ clock = 0
    /\ wpc = "idle"
    /\ wdata = <<>>
    /\ wmb = FALSE
    /\ wts = 0
    /\ wpre = Absent
    /\ werr = "none"
    /\ wbak = NoBak
    /\ wrenamed = FALSE
    /\ nCommits = 0
    /\ wreplaced = {}
    /\ InitPointerIdle
    /\ InitExecIdle
    /\ InitHeapIdle
    /\ InitUnescIdle
    /\ InitCliIdle
    /\ InitTwoIdle

NextStore ==
    \/ Begin
    \/ Mkstemp
    \/ Write
    \/ Flush
    \/ Fsync
    \/ Close
    \/ Exists
    \/ Utcnow
    \/ CopyOpen
    \/ CopyFinish
    \/ Replace
    \/ Return
    \/ Raise
    \/ Crash
    \/ Tick

SpecStore == InitStore /\ [][NextStore]_vars

----------------------------------------------------------------------------
(* Strings, as sequences of one-character strings *)

DigitChars == {"0", "1", "2", "3", "4", "5", "6", "7", "8", "9"}

DigitVal(c) ==
    CASE c = "0" -> 0 [] c = "1" -> 1 [] c = "2" -> 2 [] c = "3" -> 3
      [] c = "4" -> 4 [] c = "5" -> 5 [] c = "6" -> 6 [] c = "7" -> 7
      [] c = "8" -> 8 [] OTHER -> 9

RECURSIVE DigitsValue(_)
DigitsValue(ds) ==
    IF ds = <<>> THEN 0
    ELSE 10 * DigitsValue(SubSeq(ds, 1, Len(ds) - 1)) + DigitVal(ds[Len(ds)])

\* int(t) for a token over the modelled alphabet (no whitespace, no "_"):
\* an optional sign and one or more decimal digits, else ValueError.
PyInt(t) ==
    LET signed == t # <<>> /\ t[1] \in {"-", "+"}
        ds     == IF signed THEN Tail(t) ELSE t
        ok     == ds # <<>> /\ \A i \in 1..Len(ds) : ds[i] \in DigitChars
    IN  [ok |-> ok,
         n  |-> IF ~ok THEN 0
                ELSE IF signed /\ t[1] = "-" THEN 0 - DigitsValue(ds)
                ELSE DigitsValue(ds)]

\* str.replace(old, new) for a two-character `old` <<a, b>> and a
\* one-character `new`: left to right, non-overlapping.
RECURSIVE StrReplace2(_, _, _, _)
StrReplace2(s, a, b, new) ==
    IF Len(s) < 2 THEN s
    ELSE IF s[1] = a /\ s[2] = b
         THEN <<new>> \o StrReplace2(SubSeq(s, 3, Len(s)), a, b, new)
         ELSE <<s[1]>> \o StrReplace2(Tail(s), a, b, new)

\* str.split("/")
RECURSIVE StrSplitSlash(_)
StrSplitSlash(s) ==
    IF \A i \in 1..Len(s) : s[i] # "/" THEN <<s>>
    ELSE LET i == CHOOSE k \in 1..Len(s) :
                     s[k] = "/" /\ \A j \in 1..(k - 1) : s[j] # "/"
         IN  <<SubSeq(s, 1, i - 1)>> \o StrSplitSlash(SubSeq(s, i + 1, Len(s)))

\* `sub in s` for two strings.
IsSubstring(sub, s) ==
    \E i \in 0..(Len(s) - Len(sub)) : SubSeq(s, i + 1, i + Len(sub)) = sub

----------------------------------------------------------------------------
(* JSON values, as json.loads builds them *)

JNull == [t |-> "null"]
JBool(b) == [t |-> "bool", b |-> b]
JNum(n) == [t |-> "num", n |-> n]
JStr(s) == [t |-> "str", s |-> s]
\* a list: the sequence of its elements
JArr(a) == [t |-> "arr", a |-> a]
\* a dict: its items [k, v] in insertion order, keys unique
JObj(o) == [t |-> "obj", o |-> o]

HasKey(o, k) == \E i \in 1..Len(o) : o[i].k = k
KeyIdx(o, k) == CHOOSE i \in 1..Len(o) : o[i].k = k

\* The exceptions the helpers raise.
ErrNone == "none"
ErrPointer == "ValueError: Invalid JSON Pointer"          \* line 45
ErrDashGet == "KeyError: '-' is not valid for get"        \* line 54
ErrInt == "ValueError: invalid literal for int()"         \* int(t)
ErrIndex == "IndexError"                                  \* list index
ErrKey == "KeyError"                                      \* dict lookup, del
ErrType == "TypeError"                                    \* a scalar indexed
ErrAttr == "AttributeError"                               \* scalar.setdefault
ErrAddExists == "KeyError: Add target exists"             \* line 83
ErrReplaceMissing == "KeyError: Replace target missing"   \* line 96
ErrRemoveRoot == "KeyError: Cannot remove document root"  \* line 103

\* list[idx] accepts -len <= idx < len; a negative idx counts from the end.
IndexOk(idx, len) == (0 - len) <= idx /\ idx < len
\* The 1-based position list[idx] denotes.
IndexPos(idx, len) == IF idx < 0 THEN len + idx + 1 ELSE idx + 1

\* The position list.insert(idx, v) inserts before (1-based): it never
\* raises; an index beyond either end is clamped.
InsertPos(idx, len) ==
    IF idx < 0 THEN (IF len + idx < 0 THEN 1 ELSE len + idx + 1)
    ELSE IF idx > len THEN len + 1 ELSE idx + 1

SeqInsert(a, pos, v) == SubSeq(a, 1, pos - 1) \o <<v>> \o SubSeq(a, pos, Len(a))
SeqDelete(a, pos) == SubSeq(a, 1, pos - 1) \o SubSeq(a, pos + 1, Len(a))

----------------------------------------------------------------------------
(* JSON Pointer helpers (lines 38-109) *)

\* _unescape_token
UnescapeTokenTildeFirst(token) ==
    StrReplace2(StrReplace2(token, "~", "0", "~"), "~", "1", "/")

UnescapeToken(token) == StrReplace2(StrReplace2(token, "~", "1", "/"), "~", "0", "~")

UnescapeAll(parts) == [i \in 1..Len(parts) |-> UnescapeToken(parts[i])]

\* _split_pointer
SplitPointerLenient(ptr) ==
    IF ptr = <<>> \/ ptr = <<"/">> THEN [err |-> ErrNone, toks |-> <<>>]
    ELSE [err |-> ErrNone, toks |-> UnescapeAll(Tail(StrSplitSlash(ptr)))]

SplitPointer(ptr) ==
    IF ptr = <<>> \/ ptr = <<"/">> THEN [err |-> ErrNone, toks |-> <<>>]
    ELSE IF ptr[1] # "/" THEN [err |-> ErrPointer, toks |-> <<>>]
    ELSE [err |-> ErrNone, toks |-> UnescapeAll(Tail(StrSplitSlash(ptr)))]

\* The loop of pointer_get over the tokens (lines 51-58). GetStep is one
\* iteration: `n` is int(t), taken when cur is a list.
RECURSIVE GetWalk(_, _)
GetStep(cur, t, n, rest) ==
    IF cur.t = "arr"
    THEN IF t = <<"-">> THEN [err |-> ErrDashGet, val |-> JNull]
         ELSE IF ~n.ok THEN [err |-> ErrInt, val |-> JNull]
         ELSE IF ~IndexOk(n.n, Len(cur.a)) THEN [err |-> ErrIndex, val |-> JNull]
         ELSE GetWalk(cur.a[IndexPos(n.n, Len(cur.a))], rest)
    ELSE IF cur.t = "obj"
    THEN IF ~HasKey(cur.o, t) THEN [err |-> ErrKey, val |-> JNull]
         ELSE GetWalk(cur.o[KeyIdx(cur.o, t)].v, rest)
    ELSE [err |-> ErrType, val |-> JNull]

GetWalk(cur, toks) ==
    IF toks = <<>> THEN [err |-> ErrNone, val |-> cur]
    ELSE GetStep(cur, Head(toks), PyInt(Head(toks)), Tail(toks))

GetTokens(doc, sp) ==
    IF sp.err # ErrNone THEN [err |-> sp.err, val |-> JNull]
    ELSE GetWalk(doc, sp.toks)

\* pointer_get
PointerGet(doc, pointer) == GetTokens(doc, SplitPointer(pointer))

\* The loop of _ensure_parent (lines 63-68): the node reached, as the
\* positions leading to it (`at`), and the document as setdefault has left
\* it, also when a later token raises.
RECURSIVE EnsureWalk(_, _)

\* cur[i] is entered and the walk goes on below it.
EnsureInArr(cur, i, r) ==
    [err |-> r.err, node |-> JArr([cur.a EXCEPT ![i] = r.node]), at |-> <<i>> \o r.at]

EnsureInObj(o1, i, r) ==
    [err |-> r.err,
     node |-> JObj([o1 EXCEPT ![i] = [k |-> o1[i].k, v |-> r.node]]),
     at |-> <<i>> \o r.at]

\* cur.setdefault(t, {}) on a dict: the items afterwards.
SetDefault(o, t) ==
    IF HasKey(o, t) THEN o ELSE Append(o, [k |-> t, v |-> JObj(<<>>)])

EnsureObjStep(o1, i, rest) == EnsureInObj(o1, i, EnsureWalk(o1[i].v, rest))

EnsureArrStep(cur, i, rest) == EnsureInArr(cur, i, EnsureWalk(cur.a[i], rest))

\* As EnsureStep, but an index at or beyond the end of a list appends an
\* empty object and goes on in it.
EnsureStepExtending(cur, t, n, rest) ==
    IF cur.t = "arr"
    THEN IF ~n.ok THEN [err |-> ErrInt, node |-> cur, at |-> <<>>]
         ELSE IF n.n >= Len(cur.a)
              THEN EnsureArrStep(JArr(Append(cur.a, JObj(<<>>))), Len(cur.a) + 1, rest)
         ELSE IF ~IndexOk(n.n, Len(cur.a)) THEN [err |-> ErrIndex, node |-> cur, at |-> <<>>]
         ELSE EnsureArrStep(cur, IndexPos(n.n, Len(cur.a)), rest)
    ELSE IF cur.t = "obj"
    THEN EnsureObjStep(SetDefault(cur.o, t), KeyIdx(SetDefault(cur.o, t), t), rest)
    ELSE [err |-> ErrAttr, node |-> cur, at |-> <<>>]

EnsureStep(cur, t, n, rest) ==
    IF cur.t = "arr"
    THEN IF ~n.ok THEN [err |-> ErrInt, node |-> cur, at |-> <<>>]
         ELSE IF ~IndexOk(n.n, Len(cur.a)) THEN [err |-> ErrIndex, node |-> cur, at |-> <<>>]
         ELSE EnsureArrStep(cur, IndexPos(n.n, Len(cur.a)), rest)
    ELSE IF cur.t = "obj"
    THEN EnsureObjStep(SetDefault(cur.o, t), KeyIdx(SetDefault(cur.o, t), t), rest)
    ELSE [err |-> ErrAttr, node |-> cur, at |-> <<>>]

EnsureWalk(cur, toks) ==
    IF toks = <<>> THEN [err |-> ErrNone, node |-> cur, at |-> <<>>]
    ELSE EnsureStep(cur, Head(toks), PyInt(Head(toks)), Tail(toks))

EnsureResult(r, last) == [err |-> r.err, doc |-> r.node, at |-> r.at, last |-> last]

\* _ensure_parent(doc, tokens), for non-empty tokens: the parent (as `at`,
\* its place in the document), the last token, and the document after it.
EnsureParent(doc, tokens) ==
    EnsureResult(EnsureWalk(doc, SubSeq(tokens, 1, Len(tokens) - 1)), tokens[Len(tokens)])

\* The node at positions `at` of a document.
RECURSIVE NodeAt(_, _)
NodeAt(doc, at) ==
    IF at = <<>> THEN doc
    ELSE NodeAt(IF doc.t = "arr" THEN doc.a[Head(at)] ELSE doc.o[Head(at)].v, Tail(at))

\* The document with the node at positions `at` changed to `new` (the
\* in-place mutation of a container, seen from the root).
RECURSIVE SetAt(_, _, _)
SetChild(doc, i, child) ==
    IF doc.t = "arr" THEN JArr([doc.a EXCEPT ![i] = child])
    ELSE JObj([doc.o EXCEPT ![i] = [k |-> doc.o[i].k, v |-> child]])

SetAt(doc, at, new) ==
    IF at = <<>> THEN new
    ELSE SetChild(doc, Head(at),
                  SetAt(IF doc.t = "arr" THEN doc.a[Head(at)] ELSE doc.o[Head(at)].v,
                        Tail(at), new))

\* `last in parent` for a parent that is not a list.
Contains(parent, last) ==
    IF parent.t = "obj" THEN [err |-> ErrNone, b |-> HasKey(parent.o, last)]
    ELSE IF parent.t = "str" THEN [err |-> ErrNone, b |-> IsSubstring(last, parent.s)]
    ELSE [err |-> ErrType, b |-> FALSE]

\* The outcome of a helper that mutates the parent in place: `f` is the
\* exception raised or the parent as changed.
Mutated(ep, f) ==
    [err |-> f.err,
     doc |-> IF f.err = ErrNone THEN SetAt(ep.doc, ep.at, f.node) ELSE ep.doc]

\* pointer_add, lines 76-84: `n` is int(last), `c` is `last in parent`.
AddFinal(parent, last, n, c, value) ==
    IF parent.t = "arr"
    THEN IF last = <<"-">> THEN [err |-> ErrNone, node |-> JArr(Append(parent.a, value))]
         ELSE IF ~n.ok THEN [err |-> ErrInt, node |-> parent]
         ELSE [err |-> ErrNone,
               node |-> JArr(SeqInsert(parent.a, InsertPos(n.n, Len(parent.a)), value))]
    ELSE IF c.err # ErrNone THEN [err |-> c.err, node |-> parent]
    ELSE IF c.b THEN [err |-> ErrAddExists, node |-> parent]
    ELSE IF parent.t # "obj" THEN [err |-> ErrType, node |-> parent]
    ELSE [err |-> ErrNone, node |-> JObj(Append(parent.o, [k |-> last, v |-> value]))]

AddAtParent(ep, parent, value) ==
    IF ep.err # ErrNone THEN [err |-> ep.err, doc |-> ep.doc]
    ELSE Mutated(ep, AddFinal(parent, ep.last, PyInt(ep.last), Contains(parent, ep.last),
                              value))

AddEnsured(ep, value) == AddAtParent(ep, NodeAt(ep.doc, ep.at), value)

AddTokens(doc, sp, value) ==
    IF sp.err # ErrNone THEN [err |-> sp.err, doc |-> doc]
    ELSE IF sp.toks = <<>> THEN [err |-> ErrNone, doc |-> value]
    ELSE AddEnsured(EnsureParent(doc, sp.toks), value)

\* pointer_add. The result is the exception raised (or none) and `doc`: the
\* value returned, or after an exception the caller's document as the call
\* has left it.
PointerAdd(doc, pointer, value) == AddTokens(doc, SplitPointer(pointer), value)

\* pointer_replace, lines 92-97.
ReplaceFinalKeep(parent, last, n, c, value) == [err |-> ErrNone, node |-> parent]

ReplaceFinal(parent, last, n, c, value) ==
    IF parent.t = "arr"
    THEN IF ~n.ok THEN [err |-> ErrInt, node |-> parent]
         ELSE IF ~IndexOk(n.n, Len(parent.a)) THEN [err |-> ErrIndex, node |-> parent]
         ELSE [err |-> ErrNone,
               node |-> JArr([parent.a EXCEPT ![IndexPos(n.n, Len(parent.a))] = value])]
    ELSE IF c.err # ErrNone THEN [err |-> c.err, node |-> parent]
    ELSE IF ~c.b THEN [err |-> ErrReplaceMissing, node |-> parent]
    ELSE IF parent.t # "obj" THEN [err |-> ErrType, node |-> parent]
    ELSE [err |-> ErrNone,
          node |-> JObj([parent.o EXCEPT ![KeyIdx(parent.o, last)] =
                            [k |-> last, v |-> value]])]

ReplaceAtParent(ep, parent, value) ==
    IF ep.err # ErrNone THEN [err |-> ep.err, doc |-> ep.doc]
    ELSE Mutated(ep, ReplaceFinal(parent, ep.last, PyInt(ep.last),
                                  Contains(parent, ep.last), value))

ReplaceEnsured(ep, value) == ReplaceAtParent(ep, NodeAt(ep.doc, ep.at), value)

ReplaceTokens(doc, sp, value) ==
    IF sp.err # ErrNone THEN [err |-> sp.err, doc |-> doc]
    ELSE IF sp.toks = <<>> THEN [err |-> ErrNone, doc |-> value]
    ELSE ReplaceEnsured(EnsureParent(doc, sp.toks), value)

\* pointer_replace
PointerReplace(doc, pointer, value) == ReplaceTokens(doc, SplitPointer(pointer), value)

\* pointer_remove, lines 105-108.
RemoveFinal(parent, last, n) ==
    IF parent.t = "arr"
    THEN IF ~n.ok THEN [err |-> ErrInt, node |-> parent]
         ELSE IF ~IndexOk(n.n, Len(parent.a)) THEN [err |-> ErrIndex, node |-> parent]
         ELSE [err |-> ErrNone,
               node |-> JArr(SeqDelete(parent.a, IndexPos(n.n, Len(parent.a))))]
    ELSE IF parent.t # "obj" THEN [err |-> ErrType, node |-> parent]
    ELSE IF ~HasKey(parent.o, last) THEN [err |-> ErrKey, node |-> parent]
    ELSE [err |-> ErrNone, node |-> JObj(SeqDelete(parent.o, KeyIdx(parent.o, last)))]

RemoveAtParent(ep, parent) ==
    IF ep.err # ErrNone THEN [err |-> ep.err, doc |-> ep.doc]
    ELSE Mutated(ep, RemoveFinal(parent, ep.last, PyInt(ep.last)))

RemoveEnsured(ep) == RemoveAtParent(ep, NodeAt(ep.doc, ep.at))

RemoveTokens(doc, sp) ==
    IF sp.err # ErrNone THEN [err |-> sp.err, doc |-> doc]
    ELSE IF sp.toks = <<>> THEN [err |-> ErrRemoveRoot, doc |-> doc]
    ELSE RemoveEnsured(EnsureParent(doc, sp.toks))

\* pointer_remove
PointerRemove(doc, pointer) == RemoveTokens(doc, SplitPointer(pointer))

----------------------------------------------------------------------------
(* JSON Patch: one operation of apply_patch (lines 115-144) *)

\* An operation is a dict; a field that may be absent is an empty sequence
\* or the one-element sequence holding it: [op, path, from, value].
ErrMissingFrom == "ValueError: missing 'from'"            \* line 122
ErrMissingPath == "ValueError: missing valid 'path'"      \* line 124
ErrAssert == "AssertionError: test failed"                \* line 142
ErrUnsupported == "ValueError: Unsupported op"            \* line 144

KnownOps == {"add", "remove", "replace", "move", "copy", "test"}

\* op.get("value"): None when the field is absent.
OpValue(op) == IF op.value = <<>> THEN JNull ELSE op.value[1]

\* Python's ==, as `cur != value` at line 141 uses it: bool is an int
\* (True == 1), dicts compare without order, lists element by element.
NumOf(x) == IF x.t = "bool" THEN (IF x.b THEN 1 ELSE 0) ELSE x.n

RECURSIVE PyEq(_, _)
PyEq(x, y) ==
    IF x.t \in {"num", "bool"} /\ y.t \in {"num", "bool"} THEN NumOf(x) = NumOf(y)
    ELSE IF x.t # y.t THEN FALSE
    ELSE IF x.t = "str" THEN x.s = y.s
    ELSE IF x.t = "arr"
         THEN Len(x.a) = Len(y.a) /\ \A i \in 1..Len(x.a) : PyEq(x.a[i], y.a[i])
    ELSE IF x.t = "obj"
         THEN /\ Len(x.o) = Len(y.o)
              /\ \A i \in 1..Len(x.o) :
                    /\ HasKey(y.o, x.o[i].k)
                    /\ PyEq(x.o[i].v, y.o[KeyIdx(y.o, x.o[i].k)].v)
    ELSE TRUE

\* json.loads(json.dumps(val)): a new value with the same structure, the
\* keys in the same order.
RECURSIVE JsonCopy(_)
JsonCopy(v) ==
    IF v.t = "arr" THEN JArr([i \in 1..Len(v.a) |-> JsonCopy(v.a[i])])
    ELSE IF v.t = "obj"
         THEN JObj([i \in 1..Len(v.o) |-> [k |-> v.o[i].k, v |-> JsonCopy(v.o[i].v)]])
    ELSE v

\* The value an add, move or copy hands to pointer_add (lines 127, 135, 138).
AddedValue(op, g) ==
    IF op.op = "add" THEN OpValue(op)
    ELSE IF op.op = "copy" THEN JsonCopy(g.val)
    ELSE g.val

\* Lines 127, 129, 135, 138: `r` is the outcome of pointer_remove for remove
\* and move, and the document untouched for add and copy.
OpAfterRemove(op, g, r) ==
    IF r.err # ErrNone \/ op.op = "remove" THEN r
    ELSE PointerAdd(r.doc, op.path[1], AddedValue(op, g))

\* The working document after the pointer_get of a move, copy or test
\* (lines 133, 137, 140): pointer_get walks by cur[idx] and cur[t], which
\* read only.
AfterGetEnsuring(doc, op) ==
    IF op.op = "test" /\ SplitPointer(op.path[1]).toks # <<>>
    THEN EnsureParent(doc, SplitPointer(op.path[1]).toks).doc
    ELSE doc

AfterGet(doc, op) == doc

\* Lines 126-142: `g` is the outcome of pointer_get for move, copy (from)
\* and test (path).
OpAfterGet(doc, op, g) ==
    IF op.op \in {"move", "copy", "test"} /\ g.err # ErrNone
    THEN [err |-> g.err, doc |-> AfterGet(doc, op)]
    ELSE IF op.op = "test"
    THEN [err |-> IF PyEq(g.val, OpValue(op)) THEN ErrNone ELSE ErrAssert,
          doc |-> AfterGet(doc, op)]
    ELSE IF op.op = "replace" THEN PointerReplace(doc, op.path[1], OpValue(op))
    ELSE OpAfterRemove(op, g,
             IF op.op \in {"remove", "move"}
             THEN PointerRemove(doc, IF op.op = "move" THEN op.from[1] ELSE op.path[1])
             ELSE [err |-> ErrNone, doc |-> doc])

\* One iteration of the loop of apply_patch on the working document: the
\* exception raised (or none) and the working document afterwards.
ApplyOp(doc, op) ==
    IF op.op \in {"move", "copy"} /\ op.from = <<>> THEN [err |-> ErrMissingFrom, doc |-> doc]
    ELSE IF op.path = <<>> THEN [err |-> ErrMissingPath, doc |-> doc]
    ELSE IF op.op \notin KnownOps THEN [err |-> ErrUnsupported, doc |-> doc]
    ELSE OpAfterGet(doc, op,
                    PointerGet(doc, IF op.op = "test" THEN op.path[1] ELSE
                                    IF op.from = <<>> THEN <<>> ELSE op.from[1]))

----------------------------------------------------------------------------
(* One call of a pointer helper on a document, a pointer and a value *)

Key(c) == <<c>>
Item(k, v) == [k |-> k, v |-> v]

\* {"a": 1}
DocA == JObj(<<Item(Key("a"), JNum(1))>>)
\* {"x": [1, 2, 3]}
DocX == JObj(<<Item(Key("x"), JArr(<<JNum(1), JNum(2), JNum(3)>>))>>)
\* {"": 1, "a": {"b": [1]}}
DocE == JObj(<<Item(<<>>, JNum(1)),
               Item(Key("a"), JObj(<<Item(Key("b"), JArr(<<JNum(1)>>))>>))>>)
\* [{"a": 1}, "ab"]
DocL == JArr(<<JObj(<<Item(Key("a"), JNum(1))>>), JStr(<<"a", "b">>)>>)
\* {}
DocEmpty == JObj(<<>>)
\* "a"
DocS == JStr(<<"a">>)

DocPool == {DocA, DocX, DocE, DocL, DocEmpty, DocS}
ValPool == {JNum(9), JArr(<<>>)}

\* Raw reference tokens: keys, the empty token, indices inside and outside
\* the arrays above, negative numbers and "-".
TokPool == {<<"a">>, <<"b">>, <<"x">>, <<>>, <<"0">>, <<"1">>, <<"3">>, <<"5">>,
            <<"-">>, <<"-", "1">>, <<"-", "5">>}

RECURSIVE PtrsOfLen(_)
PtrsOfLen(k) ==
    IF k = 0 THEN {<<>>}
    ELSE {p \o <<"/">> \o t : p \in PtrsOfLen(k - 1), t \in TokPool}

\* Pointer strings of up to MaxTokens tokens, and some without a leading "/".
MalformedPtrs == {<<"a">>, <<"a", "/", "b">>, <<"x", "/", "0">>, <<"~", "1", "a">>}

PtrPool == UNION {PtrsOfLen(k) : k \in 0..MaxTokens} \cup MalformedPtrs

InitPointer ==
    /\ InitStoreIdle
    /\ InitExecIdle
    /\ InitHeapIdle
    /\ InitUnescIdle
    /\ InitCliIdle
    /\ InitTwoIdle
    /\ pdest = <<>>
    /\ pname = <<>>
    /\ pdoc \in DocPool
    /\ pptr \in PtrPool
    /\ pval \in ValPool
    /\ pcall = "none"
    /\ pres = NoResult

GetOutcome(doc, r) == [err |-> r.err, doc |-> doc, val |-> r.val]
DocOutcome(r) == [err |-> r.err, doc |-> r.doc, val |-> JNull]

PtrFrame == UNCHANGED <<storeVars, execVars, heapVars, unescVars, cliVars, twoVars, pdoc, pptr, pval, pdest, pname>>

\* pointer_get(doc, pointer)
CallGet ==
    /\ pcall = "none"
    /\ pcall' = "get"
    /\ pres' = GetOutcome(pdoc, PointerGet(pdoc, pptr))
    /\ PtrFrame

\* pointer_add(doc, pointer, value)
CallAdd ==
    /\ pcall = "none"
    /\ pcall' = "add"
    /\ pres' = DocOutcome(PointerAdd(pdoc, pptr, pval))
    /\ PtrFrame

\* pointer_replace(doc, pointer, value)
CallReplace ==
    /\ pcall = "none"
    /\ pcall' = "replace"
    /\ pres' = DocOutcome(PointerReplace(pdoc, pptr, pval))
    /\ PtrFrame

\* pointer_remove(doc, pointer)
CallRemove ==
    /\ pcall = "none"
    /\ pcall' = "remove"
    /\ pres' = DocOutcome(PointerRemove(pdoc, pptr))
    /\ PtrFrame

NextPointer ==
    \/ CallGet
    \/ CallAdd
    \/ CallReplace
    \/ CallRemove

SpecPointer == InitPointer /\ [][NextPointer]_vars

----------------------------------------------------------------------------
(* One call of _unescape_token on a raw reference token *)

RawChars == {"~", "0", "1", "a"}

RECURSIVE RawOfLen(_)
RawOfLen(n) ==
    IF n = 0 THEN {<<>>}
    ELSE {Append(t, c) : t \in RawOfLen(n - 1), c \in RawChars}

\* The raw tokens over the alphabet {~, 0, 1, other}.
RawTokens == UNION {RawOfLen(n) : n \in 0..MaxRawLen}

InitUnescape ==
    /\ InitStoreIdle
    /\ InitPointerIdle
    /\ InitExecIdle
    /\ InitHeapIdle
    /\ InitCliIdle
    /\ InitTwoIdle
    /\ utoken \in RawTokens
    /\ ucall = "none"
    /\ uresult = <<>>

\* _unescape_token(token)
CallUnescape ==
    /\ ucall = "none"
    /\ ucall' = "unescape"
    /\ uresult' = UnescapeToken(utoken)
    /\ UNCHANGED <<storeVars, ptrVars, execVars, heapVars, cliVars, twoVars, utoken>>

NextUnescape == CallUnescape

SpecUnescape == InitUnescape /\ [][NextUnescape]_vars

----------------------------------------------------------------------------
(* apply_patch(doc, patch), one operation per step *)

Ptr1(a) == <<"/", a>>
Ptr2(a, b) == <<"/", a, "/", b>>

OpAdd(p, v) == [op |-> "add", path |-> <<p>>, from |-> <<>>, value |-> <<v>>]
OpRemove(p) == [op |-> "remove", path |-> <<p>>, from |-> <<>>, value |-> <<>>]
OpReplace(p, v) == [op |-> "replace", path |-> <<p>>, from |-> <<>>, value |-> <<v>>]
OpMove(f, p) == [op |-> "move", path |-> <<p>>, from |-> <<f>>, value |-> <<>>]
OpCopy(f, p) == [op |-> "copy", path |-> <<p>>, from |-> <<f>>, value |-> <<>>]
OpTest(p, v) == [op |-> "test", path |-> <<p>>, from |-> <<>>, value |-> <<v>>]

\* The operations patches are built from: well-formed ones whose effect
\* depends on what ran before, and ones lacking a field.
OpPool ==
    { OpAdd(Ptr2("x", "0"), JNum(9)),
      OpAdd(Ptr1("a"), JObj(<<>>)),
      OpRemove(Ptr2("x", "0")),
      OpRemove(Ptr1("b")),
      OpReplace(Ptr1("a"), JNum(2)),
      OpTest(Ptr1("a"), JNum(1)),
      OpMove(Ptr1("a"), Ptr1("b")),
      OpCopy(Ptr1("x"), Ptr1("y")),
      \* {"op": "add", "path": "/c"}
      [op |-> "add", path |-> <<Ptr1("c")>>, from |-> <<>>, value |-> <<>>],
      \* {"op": "replace", "path": "/a"}
      [op |-> "replace", path |-> <<Ptr1("a")>>, from |-> <<>>, value |-> <<>>],
      \* {"op": "move", "path": "/b"}
      [op |-> "move", path |-> <<Ptr1("b")>>, from |-> <<>>, value |-> <<>>],
      \* {"op": "remove"}
      [op |-> "remove", path |-> <<>>, from |-> <<>>, value |-> <<>>],
      \* {"op": "merge", "path": "/a", "value": 2}
      [op |-> "merge", path |-> <<Ptr1("a")>>, from |-> <<>>, value |-> <<JNum(2)>>] }

RECURSIVE PatchesOfLen(_)
PatchesOfLen(n) ==
    IF n = 0 THEN {<<>>}
    ELSE {Append(q, o) : q \in PatchesOfLen(n - 1), o \in OpPool}

PatchPool == UNION {PatchesOfLen(n) : n \in 0..MaxPatchLen}

PatchDocs == {DocA, DocX, DocEmpty}

InitPatch ==
    /\ InitStoreIdle
    /\ InitPointerIdle
    /\ InitHeapIdle
    /\ InitUnescIdle
    /\ InitCliIdle
    /\ InitTwoIdle
    /\ xdoc \in PatchDocs
    /\ xdoc0 = xdoc
    /\ xpatch \in PatchPool
    /\ xi = 0
    /\ xpc = "run"
    /\ xerr = "none"
    /\ xtrace = <<>>
    /\ xerrAt = -1

ExecFrame == UNCHANGED <<storeVars, ptrVars, heapVars, unescVars, cliVars, twoVars, xpatch, xdoc0>>

\* for i, op in enumerate(patch): the item the loop takes when k operations
\* are behind it (line 114).
EnumeratedReversed(patch, k) == [i |-> k, op |-> patch[Len(patch) - k]]

Enumerated(patch, k) == [i |-> k, op |-> patch[k + 1]]

\* Where the loop stands after operation i raised: apply_patch has no
\* handler, the exception leaves it.
OnOpRaiseContinue(i) == [pc |-> "run", i |-> i + 1]

OnOpRaise(i) == [pc |-> "failed", i |-> i]

\* The loop body on the operation the loop is at.
ExecResult == ApplyOp(xdoc, Enumerated(xpatch, xi).op)

\* An operation is applied and the loop goes on (lines 115-144).
ExecOk ==
    /\ xpc = "run"
    /\ xi < Len(xpatch)
    /\ ExecResult.err = ErrNone
    /\ xdoc' = ExecResult.doc
    /\ xi' = xi + 1
    /\ xtrace' = Append(xtrace, Enumerated(xpatch, xi).op)
    /\ UNCHANGED <<xpc, xerr, xerrAt>>
    /\ ExecFrame

\* An operation raises: the exception leaves apply_patch; the working
\* document stays as the operation left it.
ExecRaise ==
    /\ xpc = "run"
    /\ xi < Len(xpatch)
    /\ ExecResult.err # ErrNone
    /\ xdoc' = ExecResult.doc
    /\ xerr' = ExecResult.err
    /\ xerrAt' = Enumerated(xpatch, xi).i
    /\ xpc' = OnOpRaise(xi).pc
    /\ xi' = OnOpRaise(xi).i
    /\ xtrace' = Append(xtrace, Enumerated(xpatch, xi).op)
    /\ ExecFrame

\* The loop is exhausted: return doc (line 145).
LoopEnd ==
    /\ xpc = "run"
    /\ xi >= Len(xpatch)
    /\ xpc' = "done"
    /\ UNCHANGED <<xdoc, xi, xerr, xtrace, xerrAt>>
    /\ ExecFrame

NextPatch ==
    \/ ExecOk
    \/ ExecRaise
    \/ LoopEnd

SpecPatch == InitPatch /\ [][NextPatch]_vars

----------------------------------------------------------------------------
(* clone_layer (lines 153-158) *)

NameKey == <<"n", "a", "m", "e">>

\* d[k] = v on a dict: the value of an existing key is replaced in place,
\* a new key goes last.
DictSet(o, k, v) ==
    IF HasKey(o, k) THEN [o EXCEPT ![KeyIdx(o, k)] = [k |-> k, v |-> v]]
    ELSE Append(o, [k |-> k, v |-> v])

\* `if name`: name is neither None nor the empty string (line 156).
NameGiven(name) == name # <<>> /\ name[1] # <<>>

\* Lines 156-157.
Renamed(clone, name) ==
    IF NameGiven(name) /\ clone.t = "obj"
    THEN JObj(DictSet(clone.o, NameKey, JStr(name[1])))
    ELSE clone

\* Lines 155-158: `g` is the outcome of pointer_get at line 154.
CloneAfterGet(doc, g, dest, name) ==
    IF g.err # ErrNone THEN [err |-> g.err, doc |-> doc]
    ELSE PointerAdd(doc, dest, Renamed(JsonCopy(g.val), name))

CloneLayer(doc, source, dest, name) ==
    CloneAfterGet(doc, PointerGet(doc, source), dest, name)

\* {"a": {"name": "x"}, "l": []}
DocLayer ==
    JObj(<<Item(Key("a"), JObj(<<Item(NameKey, JStr(<<"x">>))>>)),
           Item(Key("l"), JArr(<<>>))>>)
\* {"a": {"k": 1}, "l": [{"name": "x", "k": 1}]}
DocLayers ==
    JObj(<<Item(Key("a"), JObj(<<Item(Key("k"), JNum(1))>>)),
           Item(Key("l"), JArr(<<JObj(<<Item(NameKey, JStr(<<"x">>)),
                                        Item(Key("k"), JNum(1))>>)>>))>>)

CloneDocs == {DocLayer, DocLayers, DocA, DocX}
CloneSources == {Ptr1("a"), Ptr2("l", "0"), Ptr1("x"), Ptr1("z"), <<"a">>}
CloneDests == {Ptr1("b"), Ptr1("a"), Ptr2("l", "-"), Ptr2("l", "0"), Ptr2("a", "c"),
               Ptr2("x", "5")}
\* --name absent, --name "", --name "y"
CloneNames == {<<>>, << <<>> >>, << <<"y">> >>}

InitClone ==
    /\ InitStoreIdle
    /\ InitExecIdle
    /\ InitHeapIdle
    /\ InitUnescIdle
    /\ InitCliIdle
    /\ InitTwoIdle
    /\ pdoc \in CloneDocs
    /\ pptr \in CloneSources
    /\ pdest \in CloneDests
    /\ pname \in CloneNames
    /\ pval = JNull
    /\ pcall = "none"
    /\ pres = NoResult

\* clone_layer(doc, source_pointer, dest_pointer, name)
CallClone ==
    /\ pcall = "none"
    /\ pcall' = "clone"
    /\ pres' = DocOutcome(CloneLayer(pdoc, pptr, pdest, pname))
    /\ PtrFrame

NextClone == CallClone

SpecClone == InitClone /\ [][NextClone]_vars

----------------------------------------------------------------------------
(* apply_patch on patches of move, copy and test operations *)

\* {"a": true}
DocT == JObj(<<Item(Key("a"), JBool(TRUE))>>)
\* {"a": {"n": [1]}}
DocN == JObj(<<Item(Key("a"), JObj(<<Item(Key("n"), JArr(<<JNum(1)>>))>>))>>)

\* Moves into a descendant of `from` and under a missing parent, copies, and
\* tests that match, differ in kind, differ in content, or do not resolve.
MoveOpPool ==
    { OpMove(Ptr1("a"), Ptr2("a", "b")),
      OpMove(Ptr2("x", "0"), Ptr2("x", "0") \o Ptr1("b")),
      OpMove(Ptr1("x"), Ptr2("x", "0")),
      OpMove(Ptr1("a"), Ptr2("b", "c")),
      OpMove(Ptr1("a"), Ptr1("b")),
      OpCopy(Ptr1("a"), Ptr1("c")),
      OpTest(Ptr1("a"), JNum(1)),
      OpTest(Ptr1("a"), JBool(TRUE)),
      OpTest(Ptr1("a"), JNum(2)),
      OpTest(Ptr2("b", "c"), JNum(1)),
      OpTest(Ptr2("x", "-"), JNum(1)),
      OpTest(<<"a">>, JNum(1)) }

RECURSIVE MovePatchesOfLen(_)
MovePatchesOfLen(n) ==
    IF n = 0 THEN {<<>>}
    ELSE {Append(q, o) : q \in MovePatchesOfLen(n - 1), o \in MoveOpPool}

MovePatchPool == UNION {MovePatchesOfLen(n) : n \in 0..MaxPatchLen}

MoveDocs == {DocA, DocX, DocT, DocN}

InitMove ==
    /\ InitStoreIdle
    /\ InitPointerIdle
    /\ InitHeapIdle
    /\ InitUnescIdle
    /\ InitCliIdle
    /\ InitTwoIdle
    /\ xdoc \in MoveDocs
    /\ xdoc0 = xdoc
    /\ xpatch \in MovePatchPool
    /\ xi = 0
    /\ xpc = "run"
    /\ xerr = "none"
    /\ xtrace = <<>>
    /\ xerrAt = -1

SpecMove == InitMove /\ [][NextPatch]_vars

----------------------------------------------------------------------------
(* apply_patch on Python objects. A list or dict has an identity; it holds  *)
(* scalars and references to other lists and dicts; the helpers change the  *)
(* container they have reached, in place, whoever else refers to it.        *)

Ref(id) == [t |-> "ref", id |-> id]

\* The object a slot denotes: a scalar, or the list or dict referred to.
HNode(heap, slot) == IF slot.t = "ref" THEN heap[slot.id] ELSE slot

\* json.dumps: the value a slot denotes, as a tree.
RECURSIVE HDump(_, _)
HDump(heap, slot) ==
    IF slot.t # "ref" THEN slot
    ELSE IF heap[slot.id].t = "arr"
    THEN JArr([i \in 1..Len(heap[slot.id].a) |-> HDump(heap, heap[slot.id].a[i])])
    ELSE JObj([i \in 1..Len(heap[slot.id].o) |->
                  [k |-> heap[slot.id].o[i].k, v |-> HDump(heap, heap[slot.id].o[i].v)]])

\* json.loads: every list and dict of the value is a new object.
RECURSIVE HLoad(_, _)
RECURSIVE HLoadAll(_, _)
HLoadAppend(slots, s) == [heap |-> s.heap, slots |-> Append(slots, s.slot)]

HLoadNext(r, v) == HLoadAppend(r.slots, HLoad(r.heap, v))

HLoadAll(heap, vals) ==
    IF vals = <<>> THEN [heap |-> heap, slots |-> <<>>]
    ELSE HLoadNext(HLoadAll(heap, SubSeq(vals, 1, Len(vals) - 1)), vals[Len(vals)])

HNewArr(r) == [heap |-> Append(r.heap, JArr(r.slots)), slot |-> Ref(Len(r.heap) + 1)]

HNewObj(keys, r) ==
    [heap |-> Append(r.heap, JObj([i \in 1..Len(keys) |-> [k |-> keys[i], v |-> r.slots[i]]])),
     slot |-> Ref(Len(r.heap) + 1)]

HLoad(heap, v) ==
    IF v.t = "arr" THEN HNewArr(HLoadAll(heap, v.a))
    ELSE IF v.t = "obj"
    THEN HNewObj([i \in 1..Len(v.o) |-> v.o[i].k],
                 HLoadAll(heap, [i \in 1..Len(v.o) |-> v.o[i].v]))
    ELSE [heap |-> heap, slot |-> v]

\* json.loads(json.dumps(val)) at line 138.
HCopiedShared(heap, slot) == [heap |-> heap, slot |-> slot]

HCopied(heap, slot) == HLoad(heap, HDump(heap, slot))

\* pointer_get (lines 49-59).
RECURSIVE HGetWalk(_, _, _)
HGetStep(heap, node, t, n, rest) ==
    IF node.t = "arr"
    THEN IF t = <<"-">> THEN [err |-> ErrDashGet, val |-> JNull]
         ELSE IF ~n.ok THEN [err |-> ErrInt, val |-> JNull]
         ELSE IF ~IndexOk(n.n, Len(node.a)) THEN [err |-> ErrIndex, val |-> JNull]
         ELSE HGetWalk(heap, node.a[IndexPos(n.n, Len(node.a))], rest)
    ELSE IF node.t = "obj"
    THEN IF ~HasKey(node.o, t) THEN [err |-> ErrKey, val |-> JNull]
         ELSE HGetWalk(heap, node.o[KeyIdx(node.o, t)].v, rest)
    ELSE [err |-> ErrType, val |-> JNull]

HGetWalk(heap, cur, toks) ==
    IF toks = <<>> THEN [err |-> ErrNone, val |-> cur]
    ELSE HGetStep(heap, HNode(heap, cur), Head(toks), PyInt(Head(toks)), Tail(toks))

HGetTokens(heap, root, sp) ==
    IF sp.err # ErrNone THEN [err |-> sp.err, val |-> JNull]
    ELSE HGetWalk(heap, root, sp.toks)

HPointerGet(heap, root, pointer) == HGetTokens(heap, root, SplitPointer(pointer))

\* cur.setdefault(t, {}) on the dict `id`, which lacks t: a new empty dict
\* is created and stored under t (line 68).
HSetDefaultNew(heap, id, t) ==
    Append([heap EXCEPT ![id] = JObj(Append(heap[id].o, [k |-> t, v |-> Ref(Len(heap) + 1)]))],
           JObj(<<>>))

\* _ensure_parent (lines 62-68): the heap as setdefault has left it and the
\* slot reached.
RECURSIVE HEnsureWalk(_, _, _)
HEnsureStep(heap, cur, node, t, n, rest) ==
    IF node.t = "arr"
    THEN IF ~n.ok THEN [err |-> ErrInt, heap |-> heap, cur |-> cur]
         ELSE IF ~IndexOk(n.n, Len(node.a)) THEN [err |-> ErrIndex, heap |-> heap, cur |-> cur]
         ELSE HEnsureWalk(heap, node.a[IndexPos(n.n, Len(node.a))], rest)
    ELSE IF node.t = "obj"
    THEN IF HasKey(node.o, t) THEN HEnsureWalk(heap, node.o[KeyIdx(node.o, t)].v, rest)
         ELSE HEnsureWalk(HSetDefaultNew(heap, cur.id, t), Ref(Len(heap) + 1), rest)
    ELSE [err |-> ErrAttr, heap |-> heap, cur |-> cur]

HEnsureWalk(heap, cur, toks) ==
    IF toks = <<>> THEN [err |-> ErrNone, heap |-> heap, cur |-> cur]
    ELSE HEnsureStep(heap, cur, HNode(heap, cur), Head(toks), PyInt(Head(toks)), Tail(toks))

HEnsureParent(heap, root, tokens) ==
    HEnsureWalk(heap, root, SubSeq(tokens, 1, Len(tokens) - 1))

\* The parent reached is changed in place: `f` is the exception raised or
\* the parent's new content.
HMutated(ep, f) ==
    [err |-> f.err,
     heap |-> IF f.err = ErrNone THEN [ep.heap EXCEPT ![ep.cur.id] = f.node] ELSE ep.heap]

HRooted(root, r) == [err |-> r.err, heap |-> r.heap, root |-> root]

\* pointer_add (lines 72-85) on objects.
HAddAtParent(ep, parent, last, value) ==
    IF ep.err # ErrNone THEN [err |-> ep.err, heap |-> ep.heap]
    ELSE HMutated(ep, AddFinal(parent, last, PyInt(last), Contains(parent, last), value))

HAddEnsured(ep, last, value) == HAddAtParent(ep, HNode(ep.heap, ep.cur), last, value)

HAddTokens(heap, root, sp, value) ==
    IF sp.err # ErrNone THEN [err |-> sp.err, heap |-> heap, root |-> root]
    ELSE IF sp.toks = <<>> THEN [err |-> ErrNone, heap |-> heap, root |-> value]
    ELSE HRooted(root, HAddEnsured(HEnsureParent(heap, root, sp.toks),
                                   sp.toks[Len(sp.toks)], value))

HPointerAdd(heap, root, pointer, value) ==
    HAddTokens(heap, root, SplitPointer(pointer), value)

\* pointer_replace (lines 88-98) on objects.
HReplaceAtParent(ep, parent, last, value) ==
    IF ep.err # ErrNone THEN [err |-> ep.err, heap |-> ep.heap]
    ELSE HMutated(ep, ReplaceFinal(parent, last, PyInt(last), Contains(parent, last), value))

HReplaceEnsured(ep, last, value) == HReplaceAtParent(ep, HNode(ep.heap, ep.cur), last, value)

HReplaceTokens(heap, root, sp, value) ==
    IF sp.err # ErrNone THEN [err |-> sp.err, heap |-> heap, root |-> root]
    ELSE IF sp.toks = <<>> THEN [err |-> ErrNone, heap |-> heap, root |-> value]
    ELSE HRooted(root, HReplaceEnsured(HEnsureParent(heap, root, sp.toks),
                                       sp.toks[Len(sp.toks)], value))

HPointerReplace(heap, root, pointer, value) ==
    HReplaceTokens(heap, root, SplitPointer(pointer), value)

\* pointer_remove (lines 101-109) on objects.
HRemoveAtParent(ep, parent, last) ==
    IF ep.err # ErrNone THEN [err |-> ep.err, heap |-> ep.heap]
    ELSE HMutated(ep, RemoveFinal(parent, last, PyInt(last)))

HRemoveEnsured(ep, last) == HRemoveAtParent(ep, HNode(ep.heap, ep.cur), last)

HRemoveTokens(heap, root, sp) ==
    IF sp.err # ErrNone THEN [err |-> sp.err, heap |-> heap, root |-> root]
    ELSE IF sp.toks = <<>> THEN [err |-> ErrRemoveRoot, heap |-> heap, root |-> root]
    ELSE HRooted(root, HRemoveEnsured(HEnsureParent(heap, root, sp.toks),
                                      sp.toks[Len(sp.toks)]))

HPointerRemove(heap, root, pointer) == HRemoveTokens(heap, root, SplitPointer(pointer))

\* The object an add, replace, move or copy stores: the operation's own
\* value (an object of the loaded patch), the object got from `from`
\* (move), or its JSON round trip (copy).
HStoredValue(heap, op, g) ==
    IF op.op \in {"add", "replace"} THEN HLoad(heap, OpValue(op))
    ELSE IF op.op = "copy" THEN HCopied(heap, g.val)
    ELSE [heap |-> heap, slot |-> g.val]

\* Lines 127, 129, 135, 138.
HOpAfterRemove(op, slot, r) ==
    IF r.err # ErrNone \/ op.op = "remove" THEN r
    ELSE HPointerAdd(r.heap, r.root, op.path[1], slot)

HOpWithValue(root, op, v) ==
    IF op.op = "replace" THEN HPointerReplace(v.heap, root, op.path[1], v.slot)
    ELSE HOpAfterRemove(op, v.slot,
             IF op.op \in {"remove", "move"}
             THEN HPointerRemove(v.heap, root, IF op.op = "move" THEN op.from[1] ELSE op.path[1])
             ELSE [err |-> ErrNone, heap |-> v.heap, root |-> root])

\* Lines 126-142.
HOpAfterGet(heap, root, op, g) ==
    IF op.op \in {"move", "copy", "test"} /\ g.err # ErrNone
    THEN [err |-> g.err, heap |-> heap, root |-> root]
    ELSE IF op.op = "test"
    THEN [err |-> IF PyEq(HDump(heap, g.val), OpValue(op)) THEN ErrNone ELSE ErrAssert,
          heap |-> heap, root |-> root]
    ELSE HOpWithValue(root, op, HStoredValue(heap, op, g))

\* One iteration of the loop of apply_patch (lines 115-144).
HApplyOp(heap, root, op) ==
    IF op.op \in {"move", "copy"} /\ op.from = <<>>
    THEN [err |-> ErrMissingFrom, heap |-> heap, root |-> root]
    ELSE IF op.path = <<>> THEN [err |-> ErrMissingPath, heap |-> heap, root |-> root]
    ELSE IF op.op \notin KnownOps THEN [err |-> ErrUnsupported, heap |-> heap, root |-> root]
    ELSE HOpAfterGet(heap, root, op,
                     HPointerGet(heap, root, IF op.op = "test" THEN op.path[1] ELSE
                                             IF op.from = <<>> THEN <<>> ELSE op.from[1]))

\* A copy followed by edits below the copy and below its source.
HeapOpPool ==
    { OpCopy(Ptr1("a"), Ptr1("c")),
      OpMove(Ptr1("a"), Ptr1("b")),
      OpAdd(Ptr2("c", "n") \o Ptr1("0"), JNum(9)),
      OpAdd(Ptr2("c", "k") \o Ptr1("z"), JArr(<<>>)),
      OpRemove(Ptr2("c", "n")),
      OpReplace(Ptr2("c", "n") \o Ptr1("0"), JNum(7)),
      OpAdd(Ptr2("a", "n") \o Ptr1("-"), JNum(9)),
      OpRemove(Ptr2("a", "n") \o Ptr1("0")),
      OpReplace(Ptr2("a", "n"), JObj(<<>>)),
      OpTest(Ptr2("c", "n"), JArr(<<JNum(1)>>)) }

RECURSIVE HeapPatchesOfLen(_)
HeapPatchesOfLen(n) ==
    IF n = 0 THEN {<<>>}
    ELSE {Append(q, o) : q \in HeapPatchesOfLen(n - 1), o \in HeapOpPool}

HeapPatchPool == UNION {HeapPatchesOfLen(n) : n \in 0..MaxPatchLen}

\* {"a": [[1]]}
DocAA == JObj(<<Item(Key("a"), JArr(<<JArr(<<JNum(1)>>)>>))>>)

HeapDocs == {DocN, DocAA, DocA}

InitHeap ==
    /\ InitStoreIdle
    /\ InitPointerIdle
    /\ xdoc \in HeapDocs
    /\ xdoc0 = xdoc
    /\ xpatch \in HeapPatchPool
    /\ xi = 0
    /\ xpc = "run"
    /\ xerr = "none"
    /\ xtrace = <<>>
    /\ xerrAt = -1
    /\ InitUnescIdle
    /\ InitCliIdle
    /\ InitTwoIdle
    /\ hheap = HLoad(<<>>, xdoc).heap
    /\ hroot = HLoad(<<>>, xdoc).slot

HeapFrame == UNCHANGED <<storeVars, ptrVars, unescVars, cliVars, twoVars, xpatch, xdoc0>>

HeapResult == HApplyOp(hheap, hroot, Enumerated(xpatch, xi).op)

\* An operation is applied and the loop goes on; xdoc is the document as
\* json.dumps would show it.
HeapExecOk ==
    /\ xpc = "run"
    /\ xi < Len(xpatch)
    /\ HeapResult.err = ErrNone
    /\ hheap' = HeapResult.heap
    /\ hroot' = HeapResult.root
    /\ xdoc' = HDump(hheap', hroot')
    /\ xi' = xi + 1
    /\ xtrace' = Append(xtrace, Enumerated(xpatch, xi).op)
    /\ UNCHANGED <<xpc, xerr, xerrAt>>
    /\ HeapFrame

\* An operation raises and the exception leaves apply_patch.
HeapExecRaise ==
    /\ xpc = "run"
    /\ xi < Len(xpatch)
    /\ HeapResult.err # ErrNone
    /\ hheap' = HeapResult.heap
    /\ hroot' = HeapResult.root
    /\ xdoc' = HDump(hheap', hroot')
    /\ xerr' = HeapResult.err
    /\ xerrAt' = Enumerated(xpatch, xi).i
    /\ xpc' = OnOpRaise(xi).pc
    /\ xi' = OnOpRaise(xi).i
    /\ xtrace' = Append(xtrace, Enumerated(xpatch, xi).op)
    /\ HeapFrame

\* return doc (line 145).
HeapLoopEnd ==
    /\ xpc = "run"
    /\ xi >= Len(xpatch)
    /\ xpc' = "done"
    /\ UNCHANGED <<xdoc, xi, xerr, xtrace, xerrAt, heapVars>>
    /\ HeapFrame

NextHeap ==
    \/ HeapExecOk
    \/ HeapExecRaise
    \/ HeapLoopEnd

SpecHeap == InitHeap /\ [][NextHeap]_vars

----------------------------------------------------------------------------
(* The atomic document store: claims C1-C4 *)

\* C1: during and after a commit, killed or failed at any statement, the file
\* at `path` is exactly the previous full revision (or absent) or exactly the
\* new full revision; and the rename is performed only when the temporary
\* file holds all of the new bytes and has been forced to durable storage.
C1_CommitAtomic ==
    /\ [](wpc # "idle" => fpath \in {wpre, File(wdata)})
    /\ [][(wrenamed' /\ ~wrenamed) => (ftmp = File(wdata) /\ tmpSynced)]_vars

\* The process was killed while the temporary file held a non-empty proper
\* prefix of the new bytes, and `path` still holds the previous revision.
C1_Witness ==
    /\ wpc = "crashed"
    /\ ftmp.ex
    /\ ftmp.data \in ProperPrefixes(wdata) \ {<<>>}
    /\ wpre.ex
    /\ fpath = wpre
    /\ fpath # File(wdata)

\* C2: once the backup copy of a commit with make_backup on a pre-existing
\* path has completed, the backup file holds exactly the bytes `path` held
\* when the commit was called.
C2_BackupIsPreCommitBytes ==
    (wbak # NoBak /\ (wpc \in {"replace", "return", "done"} \/ werr = "replace"))
        => fbak[wbak] = wpre

\* A commit with a backup has returned; old and new revisions differ.
C2_Witness ==
    /\ wpc = "done"
    /\ wmb
    /\ wpre.ex
    /\ wbak # NoBak
    /\ fbak[wbak] = wpre
    /\ wpre.data # wdata
    /\ fpath = File(wdata)

\* C3: in no state, a killed process included, has a commit with make_backup
\* on a pre-existing path performed its rename while its backup of the
\* previous revision is missing or incomplete.
C3_BackupBeforeRename ==
    (wrenamed /\ wmb /\ wpre.ex) => (wbak # NoBak /\ fbak[wbak] = wpre)

\* The process was killed right after the rename of a commit with a backup.
C3_Witness ==
    /\ wpc = "crashed"
    /\ wrenamed
    /\ wmb
    /\ wpre.ex
    /\ wpre.data # wdata
    /\ fbak[wbak] = wpre

\* Statements of write_atomic before the final rename.
PreRenameSteps == CanRaise \ {"replace"}

\* C4: when a statement before the final rename raises, the commit ends with
\* the error, its rename is not performed, and the file at `path` is what it
\* was when the commit was called.
C4_FailureLeavesPath ==
    (werr \in PreRenameSteps) => (wpc = "failed" /\ ~wrenamed /\ fpath = wpre)

\* The backup copy failed half way on a pre-existing path.
C4_Witness ==
    /\ werr = "copying"
    /\ wpc = "failed"
    /\ wpre.ex
    /\ fpath = wpre
    /\ fbak[wbak] # wpre
    /\ ftmp = File(wdata)

----------------------------------------------------------------------------
(* What the specification's Pointer Resolver says a pointer denotes, used   *)
(* to state the claims about the helpers (spec sections 3 and 4.1).         *)

\* parse: the empty string is the root; a string beginning with "/" is
\* split on "/" and each token unescaped.
RefWellFormed(ptr) == ptr = <<>> \/ ptr[1] = "/"
RefTokens(ptr) ==
    IF ptr = <<>> THEN <<>> ELSE UnescapeAll(Tail(StrSplitSlash(ptr)))

\* An array index token for read/remove/replace: a base-10 non-negative
\* integer strictly less than the array's length.
IsNatToken(t) == t # <<>> /\ \A i \in 1..Len(t) : t[i] \in DigitChars
RefIndexValid(t, len) == IsNatToken(t) /\ DigitsValue(t) < len

\* get: the fragment the tokens resolve to, if they do.
RECURSIVE RefGet(_, _)
RefGet(cur, toks) ==
    IF toks = <<>> THEN [ok |-> TRUE, node |-> cur]
    ELSE IF cur.t = "arr"
         THEN IF RefIndexValid(Head(toks), Len(cur.a))
              THEN RefGet(cur.a[DigitsValue(Head(toks)) + 1], Tail(toks))
              ELSE [ok |-> FALSE, node |-> JNull]
    ELSE IF cur.t = "obj" /\ HasKey(cur.o, Head(toks))
         THEN RefGet(cur.o[KeyIdx(cur.o, Head(toks))].v, Tail(toks))
    ELSE [ok |-> FALSE, node |-> JNull]

\* The parent container of a pointer with at least one token, and its
\* final token.
RefHasParent(doc, ptr) ==
    /\ RefWellFormed(ptr)
    /\ RefTokens(ptr) # <<>>
    /\ RefGet(doc, SubSeq(RefTokens(ptr), 1, Len(RefTokens(ptr)) - 1)).ok
RefParent(doc, ptr) ==
    RefGet(doc, SubSeq(RefTokens(ptr), 1, Len(RefTokens(ptr)) - 1)).node
RefLast(ptr) == RefTokens(ptr)[Len(RefTokens(ptr))]

\* Some token of the walk meets an array for which it is no valid index.
RECURSIVE RefBadArrayToken(_, _)
RefBadArrayToken(cur, toks) ==
    IF toks = <<>> THEN FALSE
    ELSE IF cur.t = "arr"
         THEN IF RefIndexValid(Head(toks), Len(cur.a))
              THEN RefBadArrayToken(cur.a[DigitsValue(Head(toks)) + 1], Tail(toks))
              ELSE TRUE
    ELSE IF cur.t = "obj" /\ HasKey(cur.o, Head(toks))
         THEN RefBadArrayToken(cur.o[KeyIdx(cur.o, Head(toks))].v, Tail(toks))
    ELSE FALSE

----------------------------------------------------------------------------
(* The pointer helpers: claims C8-C10 *)

\* C8: add is strict-insert on objects: when the pointer's parent is an
\* object that already contains the final key, pointer_add fails with
\* "Add target exists" and leaves the document unchanged.
C8_AddStrictInsert ==
    ( /\ pcall = "add"
      /\ RefHasParent(pdoc, pptr)
      /\ RefParent(pdoc, pptr).t = "obj"
      /\ HasKey(RefParent(pdoc, pptr).o, RefLast(pptr)) )
        => (pres.err = ErrAddExists /\ pres.doc = pdoc)

\* C9: for get, replace and remove, a token that meets an array and is not
\* a non-negative integer below the array's length makes the call fail, and
\* the document is left as it was.
C9_IndexStrictlyInRange ==
    ( /\ pcall \in {"get", "replace", "remove"}
      /\ RefWellFormed(pptr)
      /\ RefBadArrayToken(pdoc, RefTokens(pptr)) )
        => (pres.err # ErrNone /\ pres.doc = pdoc)

\* C10: pointer_add on an array parent of length n: "-" appends; an index i
\* with 0 <= i <= n inserts at position i, shifting the rest right; an
\* integer outside [0, n] fails with an index error and leaves the array
\* unchanged.
C10_AddIndexRange ==
    ( /\ pcall = "add"
      /\ RefHasParent(pdoc, pptr)
      /\ RefParent(pdoc, pptr).t = "arr" )
        => LET a == RefParent(pdoc, pptr).a
               last == RefLast(pptr)
               after == RefGet(pres.doc,
                               SubSeq(RefTokens(pptr), 1, Len(RefTokens(pptr)) - 1)).node
           IN  /\ (last = <<"-">>)
                     => (pres.err = ErrNone /\ after = JArr(Append(a, pval)))
               /\ (IsNatToken(last) /\ DigitsValue(last) <= Len(a))
                     => ( /\ pres.err = ErrNone
                          /\ after = JArr(SeqInsert(a, DigitsValue(last) + 1, pval)) )
               /\ (PyInt(last).ok /\ (PyInt(last).n < 0 \/ PyInt(last).n > Len(a)))
                     => (pres.err = ErrIndex /\ pres.doc = pdoc)

----------------------------------------------------------------------------
(* The patch executor: claims C5-C7 *)

\* The single-operation semantics folded over operations 0..n-1 in listed
\* order, stopping at the first that raises.
RECURSIVE FoldOps(_, _, _)
FoldNext(r, op) == IF r.err # ErrNone THEN r ELSE ApplyOp(r.doc, op)
FoldOps(doc, patch, n) ==
    IF n = 0 THEN [err |-> ErrNone, doc |-> doc]
    ELSE FoldNext(FoldOps(doc, patch, n - 1), patch[n])

Reversed(q) == [i \in 1..Len(q) |-> q[Len(q) + 1 - i]]

\* C5: when apply_patch returns, the operations executed are exactly the
\* listed ones in listed order, and the result is the fold of the
\* single-operation semantics over them: operation k ran on the document
\* that operations 0..k-1 produced.
C5_AppliedInListedOrder ==
    (xpc = "done") =>
        /\ xtrace = xpatch
        /\ FoldOps(xdoc0, xpatch, Len(xpatch)).err = ErrNone
        /\ xdoc = FoldOps(xdoc0, xpatch, Len(xpatch)).doc

\* A patch of two operations has succeeded whose result depends on the
\* order: in the other order it fails or gives another document.
C5_Witness ==
    /\ xpc = "done"
    /\ Len(xpatch) = 2
    /\ xdoc # xdoc0
    /\ FoldOps(xdoc0, Reversed(xpatch), 2) # [err |-> ErrNone, doc |-> xdoc]

\* C6: when operation k raises, apply_patch stops there: the operations
\* executed are 0..k and no later one, and the working document is what
\* operation k left of the document produced by operations 0..k-1, whose
\* effects are not rolled back.
C6_StopsAtFirstFailure ==
    (xerrAt # -1) =>
        /\ xpc = "failed"
        /\ xi = xerrAt
        /\ xtrace = SubSeq(xpatch, 1, xerrAt + 1)
        /\ FoldOps(xdoc0, xpatch, xerrAt).err = ErrNone
        /\ xdoc = ApplyOp(FoldOps(xdoc0, xpatch, xerrAt).doc, xpatch[xerrAt + 1]).doc
        /\ xerr = ApplyOp(FoldOps(xdoc0, xpatch, xerrAt).doc, xpatch[xerrAt + 1]).err

\* The second of three operations raised after the first had changed the
\* document; the change is still there and the third was not executed.
C6_Witness ==
    /\ xpc = "failed"
    /\ xerrAt = 1
    /\ Len(xpatch) = 3
    /\ Len(xtrace) = 2
    /\ xdoc # xdoc0
    /\ xdoc = FoldOps(xdoc0, xpatch, 1).doc

\* Some add, replace or test operation of the patch has no `value` field.
LacksValue(patch) ==
    \E k \in 1..Len(patch) :
        patch[k].op \in {"add", "replace", "test"} /\ patch[k].value = <<>>

\* C7: a patch in which an add, replace or test operation lacks `value`
\* is rejected before any of its operations executes: apply_patch does not
\* return a document, it executes nothing and the document is unchanged.
C7_MissingValueRejectedUpFront ==
    LacksValue(xpatch) =>
        /\ xpc # "done"
        /\ xtrace = <<>>
        /\ xdoc = xdoc0

----------------------------------------------------------------------------
(* move, copy and test: claims C11-C15 *)

\* The working document the last executed operation ran on, and that
\* operation.
LastOp == xtrace[Len(xtrace)]
DocBeforeLast == FoldOps(xdoc0, xpatch, Len(xtrace) - 1).doc

\* `path` lies strictly below `from`.
ProperDescendant(path, from) ==
    /\ RefWellFormed(path)
    /\ RefWellFormed(from)
    /\ Len(RefTokens(path)) > Len(RefTokens(from))
    /\ SubSeq(RefTokens(path), 1, Len(RefTokens(from))) = RefTokens(from)

\* get(from), then remove(from), then add(path, value), each on what the
\* previous one left, stopping at the first that fails.
MoveInOrder(doc, from, path) ==
    IF PointerGet(doc, from).err # ErrNone
    THEN [err |-> PointerGet(doc, from).err, doc |-> doc]
    ELSE IF PointerRemove(doc, from).err # ErrNone
    THEN PointerRemove(doc, from)
    ELSE PointerAdd(PointerRemove(doc, from).doc, path, PointerGet(doc, from).val)

\* C11: a move is get(from), remove(from), add(path, value) in that order,
\* and a move whose path is a proper descendant of its from fails with a
\* not-found or index error: it never succeeds.
C11_MoveIntoDescendantFails ==
    (xtrace # <<>> /\ LastOp.op = "move" /\ LastOp.from # <<>> /\ LastOp.path # <<>>)
        => /\ [err |-> xerr, doc |-> xdoc]
                 = MoveInOrder(DocBeforeLast, LastOp.from[1], LastOp.path[1])
           /\ ProperDescendant(LastOp.path[1], LastOp.from[1])
                 => (xpc = "failed" /\ xerr \in {ErrKey, ErrIndex})

\* C12: a move from /a to /b/c on an object in which /a exists and /b does
\* not fails with a not-found error, and the working document is left
\* without /a and without /b.
C12_MoveUnderMissingParent ==
    ( /\ xtrace # <<>>
      /\ LastOp = OpMove(Ptr1("a"), Ptr2("b", "c"))
      /\ DocBeforeLast.t = "obj"
      /\ HasKey(DocBeforeLast.o, Key("a"))
      /\ ~HasKey(DocBeforeLast.o, Key("b")) )
        => /\ xpc = "failed"
           /\ xerr = ErrKey
           /\ xdoc = PointerRemove(DocBeforeLast, Ptr1("a")).doc
           /\ ~HasKey(xdoc.o, Key("a"))
           /\ ~HasKey(xdoc.o, Key("b"))

\* The lists and dicts reachable from a slot.
RECURSIVE HReach(_, _)
HChildren(node) ==
    IF node.t = "arr" THEN {node.a[i] : i \in 1..Len(node.a)}
    ELSE {node.o[i].v : i \in 1..Len(node.o)}

HReach(heap, slot) ==
    IF slot.t # "ref" THEN {}
    ELSE {slot.id} \cup UNION {HReach(heap, c) : c \in HChildren(heap[slot.id])}

\* Pointer p addresses the location q or a location below it.
Inside(p, q) ==
    /\ RefWellFormed(p)
    /\ RefWellFormed(q)
    /\ Len(RefTokens(p)) >= Len(RefTokens(q))
    /\ SubSeq(RefTokens(p), 1, Len(RefTokens(q))) = RefTokens(q)

\* Operation k of the run is a copy that succeeded, between two locations
\* neither of which lies inside the other.
CopyDone(k) ==
    /\ xtrace[k].op = "copy"
    /\ (k < Len(xtrace) \/ xerr = ErrNone)
    /\ ~Inside(xtrace[k].path[1], xtrace[k].from[1])
    /\ ~Inside(xtrace[k].from[1], xtrace[k].path[1])

\* Every operation executed after operation k is an add, remove or replace
\* addressed inside q.
LaterEditsInside(k, q) ==
    \A j \in (k + 1)..Len(xtrace) :
        /\ xtrace[j].op \in {"add", "remove", "replace"}
        /\ xtrace[j].path # <<>>
        /\ Inside(xtrace[j].path[1], q)

\* The document right after operation k.
DocAfter(k) == FoldOps(xdoc0, xpatch, k).doc

\* C13: copy produces no aliasing. Right after a copy succeeds, no list or
\* dict is reachable both from `path` and from `from`; and whatever adds,
\* removes and replaces addressed inside `path` follow, the subtree at
\* `from` is as it was after the copy, and the other way round.
C13_CopyNoAliasing ==
    \A k \in 1..Len(xtrace) :
        CopyDone(k) =>
            /\ (k = Len(xtrace)) =>
                  HReach(hheap, HPointerGet(hheap, hroot, xtrace[k].path[1]).val)
                    \cap HReach(hheap, HPointerGet(hheap, hroot, xtrace[k].from[1]).val) = {}
            /\ LaterEditsInside(k, xtrace[k].path[1]) =>
                  PointerGet(xdoc, xtrace[k].from[1])
                    = PointerGet(DocAfter(k), xtrace[k].from[1])
            /\ LaterEditsInside(k, xtrace[k].from[1]) =>
                  PointerGet(xdoc, xtrace[k].path[1])
                    = PointerGet(DocAfter(k), xtrace[k].path[1])

\* A dict holding a list was copied from /a to /c, two edits inside /c
\* followed and changed the copy, and the patch has returned.
C13_Witness ==
    /\ xpc = "done"
    /\ Len(xtrace) = 3
    /\ xtrace[1] = OpCopy(Ptr1("a"), Ptr1("c"))
    /\ LaterEditsInside(1, Ptr1("c"))
    /\ PointerGet(DocAfter(1), Ptr1("a")).val.t = "obj"
    /\ PointerGet(xdoc, Ptr1("c")).err = ErrNone
    /\ PointerGet(xdoc, Ptr1("c")) # PointerGet(DocAfter(1), Ptr1("c"))
    /\ PointerGet(xdoc, Ptr1("c")) # PointerGet(DocAfter(2), Ptr1("c"))
    /\ hheap # <<>>

\* C14: a test operation never changes the document: whether it succeeds,
\* fails its comparison or fails to resolve its path, the working document
\* after it equals the working document before it.
C14_TestNeverMutates ==
    (xtrace # <<>> /\ LastOp.op = "test") => xdoc = DocBeforeLast

\* A test failed to resolve its path below a key the document lacks, after
\* an earlier operation had changed the document.
C14_Witness ==
    /\ xpc = "failed"
    /\ Len(xtrace) >= 2
    /\ LastOp = OpTest(Ptr2("b", "c"), JNum(1))
    /\ xerr = ErrKey
    /\ DocBeforeLast # xdoc0
    /\ DocBeforeLast.t = "obj"
    /\ ~HasKey(DocBeforeLast.o, Key("b"))
    /\ xdoc = DocBeforeLast

\* Structural equality of two JSON values: the same kind of node and the
\* same content; the members of an object in any order.
RECURSIVE StructEq(_, _)
StructEq(x, y) ==
    IF x.t # y.t THEN FALSE
    ELSE IF x.t = "arr"
         THEN Len(x.a) = Len(y.a) /\ \A i \in 1..Len(x.a) : StructEq(x.a[i], y.a[i])
    ELSE IF x.t = "obj"
         THEN /\ Len(x.o) = Len(y.o)
              /\ \A i \in 1..Len(x.o) :
                    /\ HasKey(y.o, x.o[i].k)
                    /\ StructEq(x.o[i].v, y.o[KeyIdx(y.o, x.o[i].k)].v)
    ELSE x = y

\* C15: a test whose path resolves succeeds exactly when the fragment at
\* the path is structurally equal to the value (true is not 1); otherwise
\* it raises the assertion failure and the patch stops there.
C15_TestStructuralEquality ==
    ( /\ xtrace # <<>>
      /\ LastOp.op = "test"
      /\ LastOp.path # <<>>
      /\ PointerGet(DocBeforeLast, LastOp.path[1]).err = ErrNone )
        => IF StructEq(PointerGet(DocBeforeLast, LastOp.path[1]).val, OpValue(LastOp))
           THEN xerr = ErrNone
           ELSE xerr = ErrAssert /\ xpc = "failed" /\ xi = Len(xtrace) - 1

----------------------------------------------------------------------------
(* The pointer helpers: claims C16-C18 *)

\* The pointer resolves to a value in the document: as the specification
\* reads it, or as pointer_get does.
Resolves(doc, ptr) ==
    \/ RefWellFormed(ptr) /\ RefGet(doc, RefTokens(ptr)).ok
    \/ PointerGet(doc, ptr).err = ErrNone

\* C16: for a pointer that resolves to a value in the document,
\* pointer_replace succeeds and pointer_get of the same pointer on its
\* result is the value given.
C16_ReplaceThenGet ==
    (pcall = "replace" /\ Resolves(pdoc, pptr))
        => /\ pres.err = ErrNone
           /\ PointerGet(pres.doc, pptr) = [err |-> ErrNone, val |-> pval]

\* An element two tokens deep was replaced by a different value.
C16_Witness ==
    /\ pcall = "replace"
    /\ RefWellFormed(pptr)
    /\ Len(RefTokens(pptr)) = 2
    /\ RefGet(pdoc, RefTokens(pptr)).ok
    /\ RefGet(pdoc, RefTokens(pptr)).node # pval
    /\ pres.err = ErrNone
    /\ pres.doc # pdoc
    /\ PointerGet(pres.doc, pptr).val = pval

\* C17: a pointer string that is not empty and does not begin with "/" is
\* rejected by pointer_get, pointer_add, pointer_replace and pointer_remove
\* with the invalid-pointer error of _split_pointer, raised before the walk
\* starts, and the document is left as it was.
C17_MalformedPointerRejected ==
    (pcall \in {"get", "add", "replace", "remove"} /\ pptr # <<>> /\ pptr[1] # "/")
        => (pres.err = ErrPointer /\ pres.doc = pdoc)

\* pointer_add was called with "a/b" on an empty object, where an add at
\* /b would have succeeded.
C17_Witness ==
    /\ pcall = "add"
    /\ pptr = <<"a", "/", "b">>
    /\ pdoc = DocEmpty
    /\ PointerAdd(pdoc, Ptr1("b"), pval).err = ErrNone
    /\ pres.err = ErrPointer
    /\ pres.doc = pdoc

\* One pass over the raw token from left to right: "~1" gives "/", "~0"
\* gives "~", any other character is copied; nothing produced is read again.
RECURSIVE RefUnescape(_)
RefUnescape(s) ==
    IF s = <<>> THEN <<>>
    ELSE IF Len(s) >= 2 /\ s[1] = "~" /\ s[2] = "1"
         THEN <<"/">> \o RefUnescape(SubSeq(s, 3, Len(s)))
    ELSE IF Len(s) >= 2 /\ s[1] = "~" /\ s[2] = "0"
         THEN <<"~">> \o RefUnescape(SubSeq(s, 3, Len(s)))
    ELSE <<s[1]>> \o RefUnescape(Tail(s))

\* C18: for every raw token over {~, 0, 1, other}, _unescape_token returns
\* what the single left-to-right pass returns; "~01" gives "~1", not "/".
C18_UnescapeSinglePass ==
    (ucall = "unescape")
        => /\ uresult = RefUnescape(utoken)
           /\ (utoken = <<"~", "0", "1">>) => (uresult = <<"~", "1">>)

\* "~01" was unescaped.
C18_Witness ==
    /\ ucall = "unescape"
    /\ utoken = <<"~", "0", "1">>
    /\ uresult = <<"~", "1">>
    /\ uresult # UnescapeTokenTildeFirst(utoken)

----------------------------------------------------------------------------
(* clone_layer: claim C20 *)

\* The copy the clone is to hold: the source fragment, with its `name`
\* member set to the override when the fragment is an object and an
\* override, the empty string included, was given.
RefCloneOf(src, name) ==
    IF name # <<>> /\ src.t = "obj"
    THEN JObj(DictSet(src.o, NameKey, JStr(name[1])))
    ELSE src

\* The fragment a successful add at `dest` has put into the document:
\* the last element of the parent for "-", else what `dest` resolves to.
RefAddedAt(doc, dest) ==
    IF RefLast(dest) = <<"-">>
    THEN RefParent(doc, dest).a[Len(RefParent(doc, dest).a)]
    ELSE RefGet(doc, RefTokens(dest)).node

\* C20: a clone that succeeds puts at dest_pointer a copy of the fragment
\* at source_pointer whose `name` is the override whenever the copy is an
\* object and an override was given (the empty string included), and leaves
\* the source fragment as it was; a clone onto an object key that exists
\* fails as pointer_add does and leaves the document unchanged.
C20_CloneCopiesAndRenames ==
    (pcall = "clone" /\ RefWellFormed(pptr) /\ RefGet(pdoc, RefTokens(pptr)).ok
       /\ RefHasParent(pdoc, pdest))
        => /\ ( /\ RefParent(pdoc, pdest).t = "obj"
                /\ HasKey(RefParent(pdoc, pdest).o, RefLast(pdest)) )
                 => (pres.err = ErrAddExists /\ pres.doc = pdoc)
           /\ (pres.err = ErrNone /\ ~Inside(pdest, pptr) /\ RefLast(pdest) # <<"0">>)
                 => /\ StructEq(RefAddedAt(pres.doc, pdest),
                                RefCloneOf(RefGet(pdoc, RefTokens(pptr)).node, pname))
                    /\ RefGet(pres.doc, RefTokens(pptr)) = RefGet(pdoc, RefTokens(pptr))

----------------------------------------------------------------------------
(* json.dumps(obj, indent=2, ensure_ascii=False), as write_atomic (line 21) *)
(* and main (line 236) call it, for values without floats and for strings  *)
(* without quotes, backslashes and control characters.                     *)

DigitChar(d) == CHOOSE c \in DigitChars : DigitVal(c) = d

RECURSIVE NatStr(_)
NatStr(n) ==
    IF n < 10 THEN <<DigitChar(n)>>
    ELSE NatStr(n \div 10) \o <<DigitChar(n % 10)>>

IntStr(n) == IF n < 0 THEN <<"-">> \o NatStr(0 - n) ELSE NatStr(n)

Spaces(k) == [i \in 1..k |-> " "]

\* The line break and indentation before an item at nesting depth `lvl`.
NewLine(lvl) == <<"\n">> \o Spaces(2 * lvl)

Quoted(s) == <<"\"">> \o s \o <<"\"">>

RECURSIVE DumpsAt(_, _)
RECURSIVE DumpsElems(_, _, _)
RECURSIVE DumpsItems(_, _, _)

\* The first n elements of a list, each on its own line.
DumpsElems(a, n, lvl) ==
    IF n = 0 THEN <<>>
    ELSE DumpsElems(a, n - 1, lvl) \o (IF n > 1 THEN <<",">> ELSE <<>>)
         \o NewLine(lvl) \o DumpsAt(a[n], lvl)

\* The first n items of a dict, in insertion order.
DumpsItems(o, n, lvl) ==
    IF n = 0 THEN <<>>
    ELSE DumpsItems(o, n - 1, lvl) \o (IF n > 1 THEN <<",">> ELSE <<>>)
         \o NewLine(lvl) \o Quoted(o[n].k) \o <<":", " ">> \o DumpsAt(o[n].v, lvl)

DumpsAt(v, lvl) ==
    CASE v.t = "null" -> <<"n", "u", "l", "l">>
      [] v.t = "bool" -> IF v.b THEN <<"t", "r", "u", "e">>
                         ELSE <<"f", "a", "l", "s", "e">>
      [] v.t = "num"  -> IntStr(v.n)
      [] v.t = "str"  -> Quoted(v.s)
      [] v.t = "arr"  -> IF v.a = <<>> THEN <<"[", "]">>
                         ELSE <<"[">> \o DumpsElems(v.a, Len(v.a), lvl + 1)
                              \o NewLine(lvl) \o <<"]">>
      [] OTHER        -> IF v.o = <<>> THEN <<"{", "}">>
                         ELSE <<"{">> \o DumpsItems(v.o, Len(v.o), lvl + 1)
                              \o NewLine(lvl) \o <<"}">>

Dumps(v) == DumpsAt(v, 0)

----------------------------------------------------------------------------
(* The command-line tools: json_plan_tool.py main (set, add, remove,       *)
(* apply-patch, clone-layer), apply_patches_in_order.py main, and          *)
(* render_template_to_plan and update_plan_from_template of                *)
(* json_plan_tool_extended.py. A command reads its input, edits a document *)
(* in memory, and either previews the result (--dry-run) or hands it to     *)
(* write_atomic. The target file of the model is the path the command      *)
(* would write: json_file, --out, output, plan.                            *)

LayersKey == <<"l", "a", "y", "e", "r", "s">>
OrchKey == <<"o", "r", "c", "h", "e", "s", "t", "r", "a", "t", "o", "r">>

ErrNotFound == "FileNotFoundError"                        \* open(path, "rb")
ErrOS == "OSError"                                        \* write_atomic
ErrRender == "Exception: render_workflow"                 \* the template bridge
ErrStrategy == "ValueError: Unknown merge strategy"       \* extended, line 90

\* d.get(k, default)
DictGet(o, k, default) == IF HasKey(o, k) THEN o[KeyIdx(o, k)].v ELSE default

\* merged_plan["orchestrator"] = ... when the rendered pipeline has the key
\* (extended, lines 79-80).
WithOrchestrator(o, rendered) ==
    IF HasKey(rendered.o, OrchKey)
    THEN DictSet(o, OrchKey, DictGet(rendered.o, OrchKey, JNull))
    ELSE o

\* existing_layers + new_layers (extended, line 85): two lists are
\* concatenated; a list cannot be added to a value of another type.
LayersAppended(o, old, new) ==
    IF old.t = "arr" /\ new.t = "arr"
    THEN [err |-> ErrNone, doc |-> JObj(DictSet(o, LayersKey, JArr(old.a \o new.a)))]
    ELSE [err |-> ErrType, doc |-> JObj(o)]

\* The merge strategies of update_plan_from_template (extended, lines
\* 73-90). `rendered` is the dict render_workflow returned. A scalar has no
\* copy(); a list has no string keys and no get().
Merged(existing, rendered, strategy) ==
    CASE strategy = "replace" -> [err |-> ErrNone, doc |-> rendered]
      [] strategy = "merge_layers" ->
            IF existing.t \notin {"obj", "arr"} THEN [err |-> ErrAttr, doc |-> existing]
            ELSE IF existing.t = "arr" THEN [err |-> ErrType, doc |-> existing]
            ELSE [err |-> ErrNone,
                  doc |-> JObj(WithOrchestrator(
                             DictSet(existing.o, LayersKey,
                                     DictGet(rendered.o, LayersKey, JArr(<<>>))),
                             rendered))]
      [] strategy = "append_layers" ->
            IF existing.t # "obj" THEN [err |-> ErrAttr, doc |-> existing]
            ELSE LayersAppended(existing.o,
                                DictGet(existing.o, LayersKey, JArr(<<>>)),
                                DictGet(rendered.o, LayersKey, JArr(<<>>)))
      [] OTHER -> [err |-> ErrStrategy, doc |-> existing]

\* for pf in patch_files: doc = apply_patch(doc, patch)
\* (apply_patches_in_order.py, lines 51-55), over the first n patch files.
RECURSIVE FoldPatches(_, _, _)
FoldPatchNext(r, patch) ==
    IF r.err # ErrNone THEN r ELSE FoldOps(r.doc, patch, Len(patch))
FoldPatches(doc, patches, n) ==
    IF n = 0 THEN [err |-> ErrNone, doc |-> doc]
    ELSE FoldPatchNext(FoldPatches(doc, patches, n - 1), patches[n])

\* The commands that read the document from the target file first.
ReadsTarget == {"set", "add", "remove", "apply-patch", "clone-layer", "update"}

\* A command that would catch the exception of its edit and go on with the
\* document as the failed edit left it.
EditedSwallowing(call, doc) ==
    [err |-> ErrNone,
     doc |-> (CASE call.cmd = "set"         -> PointerReplace(doc, call.ptr, call.val)
                [] call.cmd = "add"         -> PointerAdd(doc, call.ptr, call.val)
                [] call.cmd = "remove"      -> PointerRemove(doc, call.ptr)
                [] call.cmd = "apply-patch" -> FoldOps(doc, call.patches[1], Len(call.patches[1]))
                [] call.cmd = "clone-layer" -> CloneLayer(doc, call.ptr, call.dest, call.name)
                [] call.cmd = "in-order"    -> FoldPatches(doc, call.patches, Len(call.patches))
                [] call.cmd = "render"      -> [err |-> ErrNone, doc |-> call.base]
                [] OTHER                    -> Merged(doc, call.base, call.merge)).doc]

\* The edit of a command on the document it read: [err, doc].
Edited(call, doc) ==
    CASE call.cmd = "set"         -> PointerReplace(doc, call.ptr, call.val)
      [] call.cmd = "add"         -> PointerAdd(doc, call.ptr, call.val)
      [] call.cmd = "remove"      -> PointerRemove(doc, call.ptr)
      [] call.cmd = "apply-patch" -> FoldOps(doc, call.patches[1], Len(call.patches[1]))
      [] call.cmd = "clone-layer" -> CloneLayer(doc, call.ptr, call.dest, call.name)
      [] call.cmd = "in-order"    -> FoldPatches(doc, call.patches, Len(call.patches))
      [] call.cmd = "render"      ->
            IF call.fail THEN [err |-> ErrRender, doc |-> doc]
            ELSE [err |-> ErrNone, doc |-> call.base]
      [] OTHER                    ->
            IF call.fail THEN [err |-> ErrRender, doc |-> doc]
            ELSE Merged(doc, call.base, call.merge)

\* if getattr(args, "dry_run", False) (json_plan_tool.py line 237),
\* if args.dry_run (apply_patches_in_order.py line 59), if dry_run (extended,
\* lines 46 and 92).
DryRunIgnored(dry) == FALSE

DryRunTaken(dry) == dry

\* {"layers": [1]}
DocPlan == JObj(<<Item(LayersKey, JArr(<<JNum(1)>>))>>)
\* [1]
DocList == JArr(<<JNum(1)>>)

CliDocs == {DocA, DocX, DocPlan, DocList}

\* What render_workflow returns, reduced to the keys the merge reads:
\* {"orchestrator": {}, "layers": [2]} and {"orchestrator": {}, "layers": []}.
Pipelines ==
    { JObj(<<Item(OrchKey, JObj(<<>>)), Item(LayersKey, JArr(<<JNum(2)>>))>>),
      JObj(<<Item(OrchKey, JObj(<<>>)), Item(LayersKey, JArr(<<>>))>>) }

CliPatches ==
    { <<>>,
      <<OpReplace(Ptr1("a"), JNum(2)), OpAdd(Ptr1("b"), JNum(3))>>,
      <<OpReplace(Ptr1("a"), JNum(2)), OpRemove(Ptr1("b"))>>,
      <<OpAdd(Ptr2("x", "0"), JNum(9))>> }

\* The four patch files, in their fixed order.
PatchFileSets ==
    { << <<OpReplace(Ptr1("a"), JNum(2))>>, <<OpAdd(Ptr1("b"), JNum(3))>>,
         <<>>, <<OpTest(Ptr1("b"), JNum(3))>> >>,
      << <<OpReplace(Ptr1("a"), JNum(2))>>, <<OpAdd(Ptr1("b"), JNum(3))>>,
         <<OpRemove(Ptr1("c"))>>, <<OpAdd(Ptr1("d"), JNum(4))>> >> }

Call(cmd, dry, ptr, val, dest, name, patches, base, fail, merge) ==
    [cmd |-> cmd, dry |-> dry, ptr |-> ptr, val |-> val, dest |-> dest,
     name |-> name, patches |-> patches, base |-> base, fail |-> fail,
     merge |-> merge]

CliCalls ==
    UNION { {Call(c, dry, p, JNum(2), <<>>, <<>>, <<>>, JNull, FALSE, "none") :
                c \in {"set", "add", "remove"}, p \in {Ptr1("a"), Ptr1("b")}}
            \cup {Call("apply-patch", dry, <<>>, JNull, <<>>, <<>>, <<q>>, JNull, FALSE, "none") :
                q \in CliPatches}
            \cup {Call("clone-layer", dry, Ptr1("a"), JNull, d, n, <<>>, JNull, FALSE, "none") :
                d \in {Ptr1("a"), Ptr1("b")}, n \in {<<>>, << <<"y">> >>}}
            \cup {Call("in-order", dry, <<>>, JNull, <<>>, <<>>, ps, b, FALSE, "none") :
                ps \in PatchFileSets, b \in {DocA, DocList}}
            \cup {Call("render", dry, <<>>, JNull, <<>>, <<>>, <<>>, b, f, "none") :
                b \in Pipelines, f \in BOOLEAN}
            \cup {Call("update", dry, <<>>, JNull, <<>>, <<>>, <<>>, b, f, g) :
                b \in Pipelines, f \in BOOLEAN,
                g \in {"replace", "merge_layers", "append_layers"}}
          : dry \in BOOLEAN }

\* The document a command edits: the one in the target file, the one in
\* --base, or none (render).
InputOf(call, target) ==
    IF call.cmd \in ReadsTarget THEN target
    ELSE IF call.cmd = "in-order" THEN call.base ELSE JNull

\* Every serialization a command of the pool can hand to write_atomic.
CliRevs ==
    {Dumps(Edited(c, InputOf(c, d)).doc) : c \in CliCalls, d \in CliDocs}

\* json.loads on the bytes of a file json.dumps wrote.
Loads(data) == CHOOSE d \in CliDocs : Dumps(d) = data

InitCli ==
    /\ fpath \in {Absent} \cup {File(Dumps(d)) : d \in CliDocs}
    /\ ftmp = Absent
    /\ tmpSynced = FALSE
    /\ fbak = [n \in (0..MaxClock) \X CliRevs |-> Absent]
    /\ leaked = 0
    /\ clock = 0
    /\ wpc = "idle"
    /\ wdata = <<>>
    /\ wmb = FALSE
    /\ wts = 0
    /\ wpre = Absent
    /\ werr = "none"
    /\ wbak = NoBak
    /\ wrenamed = FALSE
    /\ nCommits = 0
    /\ wreplaced = {}
    /\ InitPointerIdle
    /\ InitExecIdle
    /\ InitHeapIdle
    /\ InitUnescIdle
    /\ InitTwoIdle
    /\ mcall \in CliCalls
    /\ mpc = "start"
    /\ mdoc0 = JNull
    /\ mfile0 = fpath
    /\ mnew = JNull
    /\ merr = "none"

CliFrame == UNCHANGED <<ptrVars, execVars, heapVars, unescVars, twoVars, mcall, mfile0>>

\* read_json(path) (json_plan_tool.py line 199, apply_patches_in_order.py
\* line 39, extended line 65): open() raises when the file is missing.
\* render_template_to_plan reads no document.
CliRead ==
    /\ mpc = "start"
    /\ CliFrame
    /\ IF mcall.cmd \in ReadsTarget /\ ~fpath.ex
       THEN /\ mpc' = "exit"
            /\ merr' = ErrNotFound
            /\ mdoc0' = mdoc0
       ELSE /\ mpc' = "loaded"
            /\ merr' = merr
            /\ mdoc0' = InputOf(mcall, IF fpath.ex THEN Loads(fpath.data) ELSE JNull)
    /\ UNCHANGED <<storeVars, mnew>>

\* The edit returns: new_doc (json_plan_tool.py lines 217-234), doc
\* (apply_patches_in_order.py lines 51-55), rendered_pipeline and merged_plan
\* (extended lines 44 and 73-90).
CliEditOk ==
    /\ mpc = "loaded"
    /\ CliFrame
    /\ Edited(mcall, mdoc0).err = ErrNone
    /\ mnew' = Edited(mcall, mdoc0).doc
    /\ mpc' = "edited"
    /\ UNCHANGED <<storeVars, mdoc0, merr>>

\* The edit raises: the command ends with the exception (the extended tool
\* reports it and returns False, lines 56-58 and 102-104).
CliEditRaise ==
    /\ mpc = "loaded"
    /\ CliFrame
    /\ Edited(mcall, mdoc0).err # ErrNone
    /\ merr' = Edited(mcall, mdoc0).err
    /\ mpc' = "exit"
    /\ UNCHANGED <<storeVars, mdoc0, mnew>>

\* --dry-run: the diff or the preview is printed and the command returns
\* (json_plan_tool.py lines 237-240, apply_patches_in_order.py lines 59-62,
\* extended lines 46-49 and 92-95).
CliPreview ==
    /\ mpc = "edited"
    /\ CliFrame
    /\ DryRunTaken(mcall.dry)
    /\ mpc' = "exit"
    /\ UNCHANGED <<storeVars, mdoc0, mnew, merr>>

\* write_atomic(path, new_doc) is called with make_backup=True
\* (json_plan_tool.py line 242, apply_patches_in_order.py line 64, extended
\* lines 52 and 98); data = json.dumps(obj, indent=2) (line 21).
CliCommit ==
    /\ mpc = "edited"
    /\ CliFrame
    /\ ~DryRunTaken(mcall.dry)
    /\ ~Running
    /\ mpc' = "writing"
    /\ wdata' = Dumps(mnew)
    /\ wmb' = TRUE
    /\ wpc' = "mkstemp"
    /\ wpre' = fpath
    /\ werr' = "none"
    /\ wbak' = NoBak
    /\ wrenamed' = FALSE
    /\ wts' = 0
    /\ nCommits' = nCommits + 1
    /\ ftmp' = Absent
    /\ tmpSynced' = FALSE
    /\ UNCHANGED <<fpath, fbak, leaked, clock, wreplaced, mdoc0, mnew, merr>>

\* write_atomic returned or raised: the command ends.
CliReturn ==
    /\ mpc = "writing"
    /\ wpc \in {"done", "failed"}
    /\ CliFrame
    /\ mpc' = "exit"
    /\ merr' = IF wpc = "failed" THEN ErrOS ELSE merr
    /\ UNCHANGED <<storeVars, mdoc0, mnew>>

NextCli ==
    \/ CliRead
    \/ CliEditOk
    \/ CliEditRaise
    \/ CliPreview
    \/ CliCommit
    \/ CliReturn
    \/ Mkstemp
    \/ Write
    \/ Flush
    \/ Fsync
    \/ Close
    \/ Exists
    \/ Utcnow
    \/ CopyOpen
    \/ CopyFinish
    \/ Replace
    \/ Return
    \/ Raise
    \/ Crash
    \/ Tick

SpecCli == InitCli /\ [][NextCli]_vars

----------------------------------------------------------------------------
(* Dry-run: claim C19 *)

\* C19: a command run with --dry-run never calls write_atomic: whether its
\* edit succeeds or fails, at every moment of the command the target file
\* holds the bytes it held at the start, and no temporary file and no backup
\* file has been created.
C19_DryRunNeverCommits ==
    mcall.dry =>
        /\ fpath = mfile0
        /\ ftmp = Absent
        /\ leaked = 0
        /\ \A n \in DOMAIN fbak : fbak[n] = Absent
        /\ nCommits = 0
        /\ wpc = "idle"

\* A dry-run whose edit changed the document in memory has printed its
\* preview and ended.
C19_Witness ==
    /\ mcall.dry
    /\ mpc = "exit"
    /\ merr = ErrNone
    /\ mcall.cmd \in ReadsTarget
    /\ mnew # mdoc0

----------------------------------------------------------------------------
(* Two processes call write_atomic(path, obj, make_backup=True) on the same *)
(* path. Each runs lines 19-35 on its own temporary file (mkstemp names are *)
(* unique); they share the file at the path, the backup files and the       *)
(* clock, and their statements interleave freely.                           *)

Procs == {1, 2}

TwIdle ==
    [pc |-> "idle", data |-> <<>>, ts |-> 0, tmp |-> Absent, bak |-> NoBak,
     src |-> <<>>, copiedN |-> 0, replN |-> 0, renOrd |-> 0,
     replaced |-> Absent, err |-> "none"]

TwRunning(p) == tw[p].pc \notin {"idle", "done", "failed", "crashed"}

\* make_backup and os.path.exists(path), with make_backup = True.
TwNeedBackup == fpath.ex

TwFrame ==
    UNCHANGED <<ptrVars, execVars, heapVars, unescVars, cliVars, tfile0,
                ftmp, tmpSynced, leaked, clock,
                wpc, wdata, wmb, wts, wpre, werr, wbak, wrenamed, nCommits, wreplaced>>

\* Process p moves to the statement after the one it has executed.
TwGoto(p, rec) ==
    tw' = [tw EXCEPT ![p] = [rec EXCEPT !.pc = StepAfter(tw[p].pc, TwNeedBackup)]]

TwBegin(p) ==
    /\ tw[p].pc = "idle"
    /\ TwFrame
    /\ \E d \in Revs : tw' = [tw EXCEPT ![p] = [TwIdle EXCEPT !.pc = "mkstemp", !.data = d]]
    /\ UNCHANGED <<fpath, fbak, nren>>

\* line 25
TwMkstemp(p) ==
    /\ tw[p].pc = "mkstemp"
    /\ TwFrame
    /\ TwGoto(p, [tw[p] EXCEPT !.tmp = File(<<>>)])
    /\ UNCHANGED <<fpath, fbak, nren>>

\* line 27
TwWrite(p) ==
    /\ tw[p].pc = "write"
    /\ TwFrame
    /\ \E q \in Prefixes(tw[p].data) : TwGoto(p, [tw[p] EXCEPT !.tmp = File(q)])
    /\ UNCHANGED <<fpath, fbak, nren>>

\* line 28
TwFlush(p) ==
    /\ tw[p].pc = "flush"
    /\ TwFrame
    /\ TwGoto(p, [tw[p] EXCEPT !.tmp = File(tw[p].data)])
    /\ UNCHANGED <<fpath, fbak, nren>>

\* lines 29, 26 and 30: fsync, the end of the with block, the test of
\* make_backup and os.path.exists(path).
TwPass(p) ==
    /\ tw[p].pc \in {"fsync", "close", "exists", "return"}
    /\ TwFrame
    /\ TwGoto(p, tw[p])
    /\ UNCHANGED <<fpath, fbak, nren>>

\* lines 31-32
TwUtcnow(p) ==
    /\ tw[p].pc = "utcnow"
    /\ TwFrame
    /\ TwGoto(p, [tw[p] EXCEPT !.ts = clock])
    /\ UNCHANGED <<fpath, fbak, nren>>

\* line 33: shutil.copy2 opens the file now at the path for reading and
\* bak_path for writing; a proper prefix has been copied.
TwCopyOpen(p) ==
    /\ tw[p].pc = "copy"
    /\ TwFrame
    /\ \E q \in ProperPrefixes(BackupSource(fpath, tw[p].tmp)) :
          fbak' = [fbak EXCEPT ![BakPath(tw[p].ts, tw[p].data)] = File(q)]
    /\ TwGoto(p, [tw[p] EXCEPT !.bak = BakPath(tw[p].ts, tw[p].data),
                               !.src = BackupSource(fpath, tw[p].tmp)])
    /\ UNCHANGED <<fpath, nren>>

\* line 33: the copy finishes; it read the file it had opened, whatever
\* has been renamed onto the path since.
TwCopyFinish(p) ==
    /\ tw[p].pc = "copying"
    /\ TwFrame
    /\ fbak' = [fbak EXCEPT ![tw[p].bak] = File(tw[p].src)]
    /\ TwGoto(p, [tw[p] EXCEPT !.copiedN = nren])
    /\ UNCHANGED <<fpath, nren>>

\* line 34: os.replace(tmp_path, path)
TwReplace(p) ==
    /\ tw[p].pc = "replace"
    /\ TwFrame
    /\ fpath' = tw[p].tmp
    /\ nren' = nren + 1
    /\ TwGoto(p, [tw[p] EXCEPT !.tmp = Absent, !.replaced = fpath,
                               !.replN = nren, !.renOrd = nren + 1])
    /\ UNCHANGED fbak

\* A statement of lines 25-34 raises in process p: it has no effect on the
\* files beyond what earlier statements did, except that a failing write or
\* flush (lines 27-28) may leave a longer prefix of the data in the
\* temporary file.
TwRaise(p) ==
    /\ tw[p].pc \in CanRaise
    /\ TwFrame
    /\ \E q \in Prefixes(tw[p].data) :
          /\ IF tw[p].pc \in {"write", "flush"}
                THEN Len(q) >= Len(tw[p].tmp.data)
                ELSE q = tw[p].data
          /\ tw' = [tw EXCEPT ![p] =
                      [tw[p] EXCEPT !.pc = OnRaise(tw[p].pc, TwNeedBackup),
                                    !.err = tw[p].pc,
                                    !.tmp = IF tw[p].pc \in {"write", "flush"}
                                            THEN File(q) ELSE tw[p].tmp]]
    /\ UNCHANGED <<fpath, fbak, nren>>

\* Process p is killed between two statements.
TwCrash(p) ==
    /\ TwRunning(p)
    /\ TwFrame
    /\ tw' = [tw EXCEPT ![p] = [tw[p] EXCEPT !.pc = "crashed"]]
    /\ UNCHANGED <<fpath, fbak, nren>>

InitTwo ==
    /\ fpath \in {Absent} \cup {File(d) : d \in Revs}
    /\ ftmp = Absent
    /\ tmpSynced = FALSE
    /\ fbak = [n \in BakNames |-> Absent]
    /\ leaked = 0
    /\ clock = 0
    /\ wpc = "idle"
    /\ wdata = <<>>
    /\ wmb = FALSE
    /\ wts = 0
    /\ wpre = Absent
    /\ werr = "none"
    /\ wbak = NoBak
    /\ wrenamed = FALSE
    /\ nCommits = 0
    /\ wreplaced = {}
    /\ InitPointerIdle
    /\ InitExecIdle
    /\ InitHeapIdle
    /\ InitUnescIdle
    /\ InitCliIdle
    /\ tw = [p \in Procs |-> TwIdle]
    /\ nren = 0
    /\ tfile0 = fpath

NextTwo ==
    \/ \E p \in Procs : TwBegin(p)
    \/ \E p \in Procs : TwMkstemp(p)
    \/ \E p \in Procs : TwWrite(p)
    \/ \E p \in Procs : TwFlush(p)
    \/ \E p \in Procs : TwPass(p)
    \/ \E p \in Procs : TwUtcnow(p)
    \/ \E p \in Procs : TwCopyOpen(p)
    \/ \E p \in Procs : TwCopyFinish(p)
    \/ \E p \in Procs : TwReplace(p)
    \/ \E p \in Procs : TwRaise(p)
    \/ \E p \in Procs : TwCrash(p)
    \/ Tick

SpecTwo == InitTwo /\ [][NextTwo]_vars

----------------------------------------------------------------------------
(* Two writers: claims C21-C22 *)

\* Process p backed the path up and renamed, and another process renamed
\* onto the path after p's copy had finished and before p's rename.
Raced(p) ==
    /\ tw[p].renOrd > 0
    /\ tw[p].bak # NoBak
    /\ tw[p].replN > tw[p].copiedN

\* A backup file holds exactly the bytes `d`.
BackedUp(d) == \E n \in DOMAIN fbak : fbak[n].ex /\ fbak[n].data = d

\* C21: when a second writer's rename falls between a first writer's backup
\* copy and its rename, the first writer's rename replaces the second
\* writer's revision, and no backup was made of it: a backup file holds
\* these bytes only if the revision the first writer had backed up before
\* consisted of the same bytes.
C21_RacedRenameLosesRevision ==
    \A p \in DOMAIN tw :
        Raced(p) =>
            /\ tw[p].replaced.ex
            /\ \E q \in DOMAIN tw : q # p /\ tw[p].replaced.data = tw[q].data
            /\ BackedUp(tw[p].replaced.data) => tw[p].replaced.data = tw[p].src

\* The race has happened: the revision the first writer replaced differs
\* from the one it backed up, and it is in no backup file.
C21_Witness ==
    \E p \in DOMAIN tw :
        /\ Raced(p)
        /\ fpath = File(tw[p].data)
        /\ tw[p].replaced.data # tw[p].src
        /\ ~BackedUp(tw[p].replaced.data)

\* C22: with two concurrent commits the path holds at all times one
\* complete revision, the initial one or one of the two being committed;
\* once both commits have returned it holds the revision of the process
\* whose rename ran last.
C22_LastCommitterWins ==
    /\ tw # <<>> =>
          fpath \in {tfile0} \cup {File(tw[p].data) : p \in {q \in Procs : tw[q].pc # "idle"}}
    /\ \A p \in DOMAIN tw :
          (tw[p].renOrd = 2 /\ \A q \in Procs : tw[q].pc = "done") =>
              fpath = File(tw[p].data)

\* Both commits have returned, their statements interleaved: the process
\* that made its temporary file first renamed last, and its revision, not
\* the other's, is at the path.
C22_Witness ==
    \E p \in DOMAIN tw : \E q \in DOMAIN tw :
        /\ tw[p].pc = "done" /\ tw[q].pc = "done"
        /\ tw[p].renOrd = 2 /\ tw[q].renOrd = 1
        /\ tw[p].data # tw[q].data
        /\ tw[p].copiedN = 0 /\ tw[p].bak # NoBak
        /\ fpath = File(tw[p].data)

----------------------------------------------------------------------------
(* The consolidated patch: make_consolidated_patch.py concatenates the four *)
(* patch files in the order apply_patches_in_order.py applies them; the     *)
(* result is applied by one call of apply_patch.                            *)

\* for path in order: ops.extend(json.loads(...)) over the first n files
\* (make_consolidated_patch.py, lines 25-28).
RECURSIVE Extended(_, _)
Extended(patches, n) ==
    IF n = 0 THEN <<>> ELSE Extended(patches, n - 1) \o patches[n]

\* The files taken last to first.
RECURSIVE ExtendedLastFirst(_, _)
ExtendedLastFirst(patches, n) ==
    IF n = 0 THEN <<>> ELSE patches[n] \o ExtendedLastFirst(patches, n - 1)

ConsolidatedLastFirst(patches) == ExtendedLastFirst(patches, Len(patches))

Consolidated(patches) == Extended(patches, Len(patches))

\* apply_patch(doc, patch) over the first n operations: the outcome, the
\* working document, and the index of the operation that raised (or -1).
RECURSIVE RunOps(_, _, _)
RunOpsNext(r, op, i) ==
    IF r.err # ErrNone THEN r
    ELSE [err |-> ApplyOp(r.doc, op).err, doc |-> ApplyOp(r.doc, op).doc,
          at |-> IF ApplyOp(r.doc, op).err # ErrNone THEN i ELSE -1]
RunOps(doc, patch, n) ==
    IF n = 0 THEN [err |-> ErrNone, doc |-> doc, at |-> -1]
    ELSE RunOpsNext(RunOps(doc, patch, n - 1), patch[n], n - 1)

\* doc = base_doc; for pf in patch_files: doc = apply_patch(doc, patch)
\* (apply_patches_in_order.py, lines 51-55) over the first n files: the
\* outcome, the working document, the file whose patch raised (from 1, or
\* 0) and the index in it of the operation that raised.
RECURSIVE RunInOrder(_, _, _)
RunFile(r, patch, k) ==
    IF r.err # ErrNone THEN r
    ELSE [err  |-> RunOps(r.doc, patch, Len(patch)).err,
          doc  |-> RunOps(r.doc, patch, Len(patch)).doc,
          file |-> IF RunOps(r.doc, patch, Len(patch)).err # ErrNone THEN k ELSE 0,
          at   |-> RunOps(r.doc, patch, Len(patch)).at]
RunInOrder(doc, patches, n) ==
    IF n = 0 THEN [err |-> ErrNone, doc |-> doc, file |-> 0, at |-> -1]
    ELSE RunFile(RunInOrder(doc, patches, n - 1), patches[n], n)

\* The patch files' contents: short patches that succeed or fail depending
\* on what ran before, one of them replacing the root.
FilePatches ==
    { <<>>,
      <<OpAdd(Ptr1("b"), JNum(3))>>,
      <<OpReplace(Ptr1("a"), JNum(2)), OpTest(Ptr1("b"), JNum(3))>>,
      <<OpMove(Ptr1("a"), Ptr1("c"))>>,
      <<OpRemove(Ptr1("b")), OpCopy(Ptr1("c"), Ptr1("a"))>>,
      <<OpAdd(<<>>, JObj(<<>>))>>,
      <<OpAdd(Ptr2("x", "-"), JNum(4)), OpRemove(Ptr2("x", "0"))>> }

InitConsolidated ==
    /\ InitStoreIdle
    /\ InitPointerIdle
    /\ InitHeapIdle
    /\ InitUnescIdle
    /\ InitTwoIdle
    /\ mcall \in {Call("in-order", FALSE, <<>>, JNull, <<>>, <<>>,
                       <<p1, p2, p3, p4>>, b, FALSE, "none") :
                     p1 \in FilePatches, p2 \in FilePatches,
                     p3 \in FilePatches, p4 \in FilePatches,
                     b \in {DocA, DocX}}
    /\ mpc = "idle"
    /\ mdoc0 = JNull
    /\ mfile0 = Absent
    /\ mnew = JNull
    /\ merr = "none"
    /\ xdoc = mcall.base
    /\ xdoc0 = xdoc
    /\ xpatch = Consolidated(mcall.patches)
    /\ xi = 0
    /\ xpc = "run"
    /\ xerr = "none"
    /\ xtrace = <<>>
    /\ xerrAt = -1

SpecConsolidated == InitConsolidated /\ [][NextPatch]_vars

----------------------------------------------------------------------------
(* The consolidated patch: claim C23 *)

\* The number of operations in the first k files.
RECURSIVE OpsBefore(_, _)
OpsBefore(patches, k) ==
    IF k = 0 THEN 0 ELSE OpsBefore(patches, k - 1) + Len(patches[k])

InOrderOutcome == RunInOrder(xdoc0, mcall.patches, Len(mcall.patches))

\* C23: one call of apply_patch on the consolidated patch ends as the four
\* calls in order do: it returns the same document, or it raises the same
\* exception at the same operation with the same working document.
C23_ConsolidatedEquivalent ==
    /\ xpc = "done" =>
          /\ InOrderOutcome.err = ErrNone
          /\ InOrderOutcome.doc = xdoc
    /\ xpc = "failed" =>
          /\ InOrderOutcome.err = xerr
          /\ InOrderOutcome.doc = xdoc
          /\ xerrAt = OpsBefore(mcall.patches, InOrderOutcome.file - 1) + InOrderOutcome.at

\* Both ways failed in the third file or later, after operations of
\* earlier files had changed the document.
C23_Witness ==
    /\ xpc = "failed"
    /\ InOrderOutcome.file >= 3
    /\ xerrAt >= 2
    /\ xdoc # xdoc0
    /\ InOrderOutcome.doc = xdoc

----------------------------------------------------------------------------
(* The pointer helpers: claims C24-C26 *)

\* C24: _split_pointer returns the empty token list only for the empty
\* string; a string beginning with "/" gives the unescaped segments after
\* the leading slash, so "/" is the single token "" and the helpers called
\* with "/" address the key "" of the document, not the document.
C24_SlashIsEmptyKey ==
    (pcall \in {"get", "add", "replace", "remove"} /\ RefWellFormed(pptr)) =>
        /\ SplitPointer(pptr).err = ErrNone
        /\ SplitPointer(pptr).toks = RefTokens(pptr)
        /\ (SplitPointer(pptr).toks = <<>>) <=> (pptr = <<>>)
        /\ (pcall = "get" /\ pptr = <<"/">> /\ pdoc.t = "obj" /\ HasKey(pdoc.o, <<>>)) =>
              (pres.err = ErrNone /\ pres.val = pdoc.o[KeyIdx(pdoc.o, <<>>)].v)

\* The objects _ensure_parent creates below a missing key, along the
\* remaining tokens: objects of at most one member each, down to the
\* target; no list among them.
RECURSIVE CreatedChain(_, _)
CreatedChain(node, toks) ==
    IF toks = <<>> THEN TRUE
    ELSE /\ node.t = "obj"
         /\ Len(node.o) <= 1
         /\ \A i \in 1..Len(node.o) :
               node.o[i].k = Head(toks) /\ CreatedChain(node.o[i].v, Tail(toks))

\* The members of object `in` other than key t are in `out` as they were.
OthersKept(in, out, t) ==
    \A i \in 1..Len(in.o) :
        in.o[i].k # t =>
            HasKey(out.o, in.o[i].k) /\ out.o[KeyIdx(out.o, in.o[i].k)].v = in.o[i].v

\* The list that is the direct parent of the final token, before and after
\* the call: the length changes by `delta` and the other elements keep
\* their order.
ParentArrayKept(in, out, delta) ==
    /\ out.t = "arr"
    /\ Len(out.a) = Len(in.a) + delta
    /\ CASE delta = 1  -> \E pos \in 1..Len(out.a) : SeqDelete(out.a, pos) = in.a
         [] delta = -1 -> \E pos \in 1..Len(in.a) : SeqDelete(in.a, pos) = out.a
         [] OTHER      -> \/ out.a = in.a
                          \/ \E pos \in 1..Len(in.a) :
                                \A j \in 1..Len(in.a) : j # pos => out.a[j] = in.a[j]

\* Node `in` of the document before the call and node `out` at the same
\* place after it, with the tokens that remain from there (at least one):
\* every list on the way and beside it is as it was, but for the element
\* the walk goes through; the direct parent changes by `delta` elements.
RECURSIVE ArraysKept(_, _, _, _)
ArraysKept(in, out, toks, delta) ==
    IF in.t = "arr"
    THEN IF Len(toks) = 1 THEN ParentArrayKept(in, out, delta)
         ELSE /\ out.t = "arr"
              /\ Len(out.a) = Len(in.a)
              /\ \/ out.a = in.a
                 \/ \E pos \in 1..Len(in.a) :
                       /\ \A j \in 1..Len(in.a) : j # pos => out.a[j] = in.a[j]
                       /\ ArraysKept(in.a[pos], out.a[pos], Tail(toks), delta)
    ELSE IF in.t = "obj"
    THEN /\ out.t = "obj"
         /\ OthersKept(in, out, Head(toks))
         /\ Len(toks) > 1 =>
               IF HasKey(in.o, Head(toks))
               THEN /\ HasKey(out.o, Head(toks))
                    /\ ArraysKept(in.o[KeyIdx(in.o, Head(toks))].v,
                                  out.o[KeyIdx(out.o, Head(toks))].v, Tail(toks), delta)
               ELSE HasKey(out.o, Head(toks)) =>
                       CreatedChain(out.o[KeyIdx(out.o, Head(toks))].v, Tail(toks))
    ELSE out = in

\* The change of length the call is to make to a list that is its direct
\* parent.
Delta(call, err) ==
    IF err # ErrNone THEN 0
    ELSE IF call = "add" THEN 1 ELSE IF call = "remove" THEN -1 ELSE 0

\* C25: the walk to the parent never creates or extends a list: after
\* pointer_add, pointer_replace or pointer_remove, returned or raised, every
\* list of the document other than the direct parent of the final token has
\* its length and its elements where they were; a list that is the direct
\* parent has one element more after an add that returned, one less after
\* a remove that returned, and as many after a replace or a failure.
C25_NavigationKeepsArrays ==
    (pcall \in {"add", "replace", "remove"} /\ SplitPointer(pptr).err = ErrNone
       /\ SplitPointer(pptr).toks # <<>>) =>
        ArraysKept(pdoc, pres.doc, SplitPointer(pptr).toks, Delta(pcall, pres.err))

\* pointer_add walked through an element of a list, beyond whose end other
\* tokens of the pool point, and added a key to the object there.
C25_Witness ==
    /\ pcall = "add"
    /\ pdoc = DocL
    /\ pptr = Ptr2("0", "b")
    /\ pres.err = ErrNone
    /\ Len(pres.doc.a) = Len(pdoc.a)
    /\ pres.doc # pdoc

\* C26: a pointer_replace or pointer_remove that raises leaves the document
\* structurally equal to the one passed: no empty objects stay behind at
\* the levels that were missing.
C26_FailedReplaceRemoveNoTrace ==
    (pcall \in {"replace", "remove"} /\ pres.err # ErrNone) => StructEq(pres.doc, pdoc)

----------------------------------------------------------------------------
(* apply_patch on moves whose from and path are the same pointer *)

\* {"a": 1, "b": 2}
DocAB == JObj(<<Item(Key("a"), JNum(1)), Item(Key("b"), JNum(2))>>)

SelfMoveOpPool ==
    { OpMove(Ptr1("a"), Ptr1("a")),
      OpMove(Ptr2("x", "0"), Ptr2("x", "0")),
      OpMove(Ptr2("x", "2"), Ptr2("x", "2")),
      OpMove(Ptr2("a", "n"), Ptr2("a", "n")),
      OpMove(Ptr1("c"), Ptr1("c")),
      OpMove(<<>>, <<>>),
      OpMove(<<"/">>, <<"/">>),
      OpRemove(Ptr2("x", "0")),
      OpAdd(Ptr1("c"), JArr(<<JNum(1)>>)) }

RECURSIVE SelfMovePatchesOfLen(_)
SelfMovePatchesOfLen(n) ==
    IF n = 0 THEN {<<>>}
    ELSE {Append(q, o) : q \in SelfMovePatchesOfLen(n - 1), o \in SelfMoveOpPool}

SelfMovePatchPool == UNION {SelfMovePatchesOfLen(n) : n \in 0..MaxPatchLen}

InitSelfMove ==
    /\ InitStoreIdle
    /\ InitPointerIdle
    /\ InitHeapIdle
    /\ InitUnescIdle
    /\ InitCliIdle
    /\ InitTwoIdle
    /\ xdoc \in {DocAB, DocX, DocN, DocE}
    /\ xdoc0 = xdoc
    /\ xpatch \in SelfMovePatchPool
    /\ xi = 0
    /\ xpc = "run"
    /\ xerr = "none"
    /\ xtrace = <<>>
    /\ xerrAt = -1

SpecSelfMove == InitSelfMove /\ [][NextPatch]_vars

----------------------------------------------------------------------------
(* move onto itself: claim C29 *)

\* The last executed operation is a move whose from and path are the same
\* pointer, and the pointer resolves in the document the move ran on.
SelfMoveOfExisting ==
    /\ xtrace # <<>>
    /\ LastOp.op = "move"
    /\ LastOp.from # <<>>
    /\ LastOp.path = LastOp.from
    /\ RefWellFormed(LastOp.from[1])
    /\ RefGet(DocBeforeLast, RefTokens(LastOp.from[1])).ok

\* C29: a move whose from and path are the same pointer, resolving to an
\* existing location, succeeds and leaves the document structurally equal
\* to the one it ran on.
C29_SelfMoveKeepsDocument ==
    SelfMoveOfExisting => (xpc # "failed" /\ StructEq(xdoc, DocBeforeLast))

----------------------------------------------------------------------------
(* A sequence of commits by one writer, each with make_backup = True *)

\* write_atomic(path, obj) is called with make_backup left at its default.
BeginBackup ==
    /\ Begin
    /\ wmb'

NextChain ==
    \/ BeginBackup
    \/ Mkstemp
    \/ Write
    \/ Flush
    \/ Fsync
    \/ Close
    \/ Exists
    \/ Utcnow
    \/ CopyOpen
    \/ CopyFinish
    \/ Replace
    \/ Return
    \/ Raise
    \/ Crash
    \/ Tick

SpecChain == InitStore /\ [][NextChain]_vars

----------------------------------------------------------------------------
(* The backup chain: claim C27 *)

\* C27: over a sequence of commits by one writer, all with make_backup
\* true, whenever the commits so far have returned, every revision that was
\* replaced at the path is held, byte for byte, by some backup file: no
\* later commit overwrites an earlier backup, also when commits fall in the
\* same second or carry the same content.
C27_BackupChainComplete ==
    wpc \in {"idle", "done"} =>
        \A d \in wreplaced : \E n \in DOMAIN fbak : fbak[n] = File(d)

----------------------------------------------------------------------------
(* The edit commands are all-or-nothing on storage: claim C28 *)

EditCmds == {"set", "add", "remove", "apply-patch", "clone-layer", "in-order"}

\* Every operation of the command applied, in order, to the document: the
\* outcome [err, doc] of the first failure, or of the last operation.
AllApplied(call, doc) ==
    CASE call.cmd = "set"         -> PointerReplace(doc, call.ptr, call.val)
      [] call.cmd = "add"         -> PointerAdd(doc, call.ptr, call.val)
      [] call.cmd = "remove"      -> PointerRemove(doc, call.ptr)
      [] call.cmd = "apply-patch" -> FoldOps(doc, call.patches[1], Len(call.patches[1]))
      [] call.cmd = "clone-layer" -> CloneLayer(doc, call.ptr, call.dest, call.name)
      [] OTHER                    -> FoldPatches(doc, call.patches, Len(call.patches))

\* The command cannot read its document: the target file is missing.
NothingToRead == mcall.cmd \in ReadsTarget /\ ~mfile0.ex

\* The document the command starts from, as the files held it at the start.
StartDoc == InputOf(mcall, IF mfile0.ex THEN Loads(mfile0.data) ELSE JNull)

\* C28: set, add, remove, apply-patch, clone-layer and apply_patches_in_order
\* are all-or-nothing on storage: at every moment the target file holds the
\* bytes it held at the start or the serialization of the document with all
\* operations applied; when any operation fails (or the document cannot be
\* read) write_atomic is never called and the file keeps its bytes. The
\* result of a proper prefix of the operations is never written.
C28_CommandsAllOrNothing ==
    mcall.cmd \in EditCmds =>
        IF NothingToRead
        THEN fpath = mfile0 /\ nCommits = 0
        ELSE /\ fpath \in {mfile0, File(Dumps(AllApplied(mcall, StartDoc).doc))}
             /\ AllApplied(mcall, StartDoc).err # ErrNone =>
                    /\ fpath = mfile0
                    /\ nCommits = 0
                    /\ ftmp = Absent

\* apply_patches_in_order without --dry-run has ended with the exception of
\* its third patch file; the first two files had changed the document in
\* memory, and the file at --out holds what it held before.
C28_Witness ==
    /\ mcall.cmd = "in-order"
    /\ ~mcall.dry
    /\ mpc = "exit"
    /\ merr \notin {ErrNone, ErrOS, ErrNotFound}
    /\ FoldPatches(mdoc0, mcall.patches, 2).err = ErrNone
    /\ FoldPatches(mdoc0, mcall.patches, 2).doc # mdoc0
    /\ mfile0.ex
    /\ fpath = mfile0
    /\ File(Dumps(FoldPatches(mdoc0, mcall.patches, 2).doc)) # mfile0

====
